---- MODULE Spec2Model ----
(***************************************************************************)
(* A model of the Smart RFP orchestrator: the agentic loop of              *)
(* Orchestrator.chat, its tool routing, the auto-export of a pending       *)
(* proposal, and the subprocess Tool Pool it dispatches to.                *)
(*                                                                         *)
(* Texts are sequences of tokens.  A tool or agent name is a sequence of   *)
(* underscore-free words and single "_" tokens, so that splitting on the   *)
(* first "__" is computed and not assumed.  A user message is a sequence   *)
(* of characters, so that lower() and the substring test are computed.     *)
(* A tool result is a sequence of text chunks in which the proposal marker *)
(* is looked for as a contiguous run.                                      *)
(***************************************************************************)
EXTENDS Integers, Sequences, FiniteSets, TLC

VARIABLES
    connections,        \* MCPAgentPool._connections: agent ids, in insertion order
    history,            \* Orchestrator._conversation_history
    pending_md,         \* Orchestrator._pending_proposal_md
    pending_client,     \* Orchestrator._pending_proposal_client
    pc,                 \* where chat is: idle, model, tool, export
    user_message,       \* chat's argument
    claude_tools,       \* chat's local claude_tools (the advertised names)
    iteration,          \* chat's loop variable
    content_blocks,     \* chat's local content_blocks
    block_idx,          \* position of the tool_use block being executed
    tool_results,       \* chat's local tool_results
    final_text,         \* chat's local final_text
    stop_reason,        \* chat's local stop_reason ("none" before the first response)
    export_log,         \* the results of the auto-export calls, oldest first
    ret,                \* what the last chat call gave its caller
    calls,              \* the _execute_tool_call invocations of this chat call
    model_calls,        \* the _call_claude invocations of this chat call
    backend,            \* the reasoning backend: scripted, or the always-tool_use stub
    chats,              \* chat calls so far
    scripted,           \* scripted tool_use responses so far
    life,               \* the orchestrator's lifecycle: new, started, stopped
    route,              \* the last _execute_tool_call made on its own, with its outcome
    schema,             \* the last tool input schema discovered, raw and as advertised
    translation,        \* the last schema given to _resolve_schema_refs on its own, with its outcome
    pools,              \* both Tool Pool variants driven by the same operations: their connected agents and what the last operation gave
    retry,              \* one call of a generative-model wrapper: its attempts, waits and outcome
    since_reset,        \* whether reset_conversation has returned, and the chat calls started since
    bridge,             \* OrchestratorBridge: the chat coroutines on its loop, and the calling thread
    invocation,         \* one tool invocation through the in-process pool: its input, the requests it issued, its outcome
    tech_search         \* one search_tech_stack call: the knowledge base, the request and what was found

chat_vars == <<connections, history, pending_md, pending_client, pc, user_message,
          claude_tools, iteration, content_blocks, block_idx, tool_results,
          final_text, stop_reason, export_log, ret, calls, model_calls, backend, chats,
          scripted, life>>

vars == <<chat_vars, route, schema, translation, pools, retry, since_reset, bridge, invocation, tech_search>>

-----------------------------------------------------------------------------
(* Bounds of the model *)

MaxChats == 2
MaxScripted == 2
MaxNameLen == 7
MaxToolLen == 2
MaxFields == 3
MaxConnects == 2
MaxBridgeChats == 3
MaxAwaits == 3
MaxTechs == 2
MaxProjects == 2

-----------------------------------------------------------------------------
(* Generic helpers *)

Range(s) == {s[i] : i \in 1..Len(s)}

\* Python's `sub in s` for strings: sub occurs in s as a contiguous run.
Contains(sub, s) ==
    \E i \in 0..(Len(s) - Len(sub)) : SubSeq(s, i + 1, i + Len(sub)) = sub

\* Python's dict.get(key, default) on a dict modelled as a function.
Get(d, key, default) == IF key \in DOMAIN d THEN d[key] ELSE default

\* The sequences over S of length lo to hi.
SeqsOf(S, lo, hi) == UNION {[1..k -> S] : k \in lo..hi}

None == [isNone |-> TRUE]
Some(x) == [isNone |-> FALSE, val |-> x]

\* Python truthiness of an Optional[str]: neither None nor empty.  A text is
\* a sequence of tokens or characters.
Truthy(o) == ~o.isNone /\ Len(o.val) > 0

-----------------------------------------------------------------------------
(* Names *)

SEP == <<"_", "_">>

client_research == <<"client", "_", "research">>
knowledge_base == <<"knowledge", "_", "base">>
proposal_writer == <<"proposal", "_", "writer">>
pricing == <<"pricing">>

AGENT_REGISTRY == <<client_research, knowledge_base, proposal_writer, pricing>>

generate_proposal == <<"generate", "_", "proposal">>
export_proposal_docx == <<"export", "_", "proposal", "_", "docx">>
get_rate_card == <<"get", "_", "rate", "_", "card">>

\* The tools each agent's MCP server registers, in registration order.
ServerTools(agent_id) ==
    CASE agent_id = client_research ->
           << <<"search", "_", "company", "_", "info">>,
              <<"analyze", "_", "rfp", "_", "document">>,
              <<"search", "_", "linkedin", "_", "company">> >>
      [] agent_id = knowledge_base ->
           << <<"search", "_", "past", "_", "projects">>,
              <<"get", "_", "project", "_", "details">>,
              <<"search", "_", "tech", "_", "stack">>,
              <<"get", "_", "case", "_", "studies">> >>
      [] agent_id = proposal_writer ->
           << generate_proposal,
              <<"generate", "_", "timeline">>,
              <<"generate", "_", "executive", "_", "summary">>,
              export_proposal_docx >>
      [] agent_id = pricing ->
           << <<"estimate", "_", "project">>,
              <<"estimate", "_", "from", "_", "roles">>,
              get_rate_card >>
      [] OTHER -> << >>

-----------------------------------------------------------------------------
(* Tool routing *)

\* The least index at which "__" starts in name, 0 when there is none.
FindSep(name) ==
    LET hits == {i \in 1..(Len(name) - 1) : name[i] = "_" /\ name[i + 1] = "_"}
    IN IF hits = {} THEN 0 ELSE CHOOSE i \in hits : \A j \in hits : i <= j

\* Mutant: tool_name.split("__"), every separator splits.
RECURSIVE SplitAll(_)
SplitAll(name) ==
    LET i == FindSep(name)
    IN IF i = 0 THEN <<name>>
       ELSE <<SubSeq(name, 1, i - 1)>> \o SplitAll(SubSeq(name, i + 2, Len(name)))

\* Mutant: tool_name.rsplit("__", 1), the last separator splits.
SplitLast(name) ==
    LET hits == {i \in 1..(Len(name) - 1) : name[i] = "_" /\ name[i + 1] = "_"}
        i == IF hits = {} THEN 0 ELSE CHOOSE k \in hits : \A j \in hits : j <= k
    IN IF i = 0 THEN <<name>>
       ELSE <<SubSeq(name, 1, i - 1), SubSeq(name, i + 2, Len(name))>>

\* tool_name.split("__", 1)
SplitFirst(name) ==
    LET i == FindSep(name)
    IN IF i = 0 THEN <<name>>
       ELSE <<SubSeq(name, 1, i - 1), SubSeq(name, i + 2, Len(name))>>

\* f"{agent_id}__{tool['name']}"
CompositeName(agent_id, tool) == agent_id \o SEP \o tool

InvalidNameError(name) == <<"{", "error", "Invalid tool name format">> \o name \o <<"}">>

\* _execute_tool_call up to its await: a structured error, or the call it
\* hands to the Tool Pool.
ExecuteToolCall(tool_name, tool_input) ==
    LET parts == SplitFirst(tool_name)
    IN IF Len(parts) # 2
       THEN [kind |-> "error", text |-> InvalidNameError(tool_name)]
       ELSE [kind |-> "pool", agent_id |-> parts[1], tool |-> parts[2],
             arguments |-> tool_input]

-----------------------------------------------------------------------------
(* Texts the tools and the orchestrator produce *)

DOC == "DOC_EMOJI"

\* The literal the orchestrator looks for in a generate_proposal result.
PROPOSAL_MARKER == <<DOC, " ", "Technical Proposal">>

\* generate_proposal's Markdown rendering: "# (emoji) {project_title}" with
\* project_title "Technical Proposal (dash) {client_name}", then the sections.
ProposalMarkdown(client_name) ==
    <<"# ", DOC, " ", "Technical Proposal", " - ">> \o client_name \o <<"sections">>

\* generate_proposal's JSON rendering: the ProposalDocument's fields.
ProposalJson(client_name) ==
    <<"{", "client_name">> \o client_name
        \o <<"project_title", "Technical Proposal", " - ">> \o client_name \o <<"}">>

\* handle_api_error's rendering of a failure inside a tool.
ApiError == <<"{", "error", "Unexpected error", "}">>

\* export_proposal_docx's success value.
ExportSuccess == <<"{", "status", "success", "file_path", "}">>

\* export_proposal_docx without python-docx.
ExportNoDocx == <<"{", "status", "error", "python-docx is not installed", "}">>

\* The MCP server's answer to arguments its tool signature rejects.
ValidationError == <<"Error executing tool", "validation error">>

\* MCPAgentConnection.call_tool's wrapping of an exception.
ToolCallFailed == <<"{", "error", "Tool call failed", "}">>

NotConnectedError(agent_id) ==
    <<"{", "error", "Agent">> \o agent_id \o <<"not found or not connected", "}">>

MaxIterationsWarning == <<"Maximum orchestration iterations reached">>

SuccessNote == <<"---", DOC, "Documento DOCX generado automaticamente">>

FailureNote == <<"No se pudo exportar a DOCX automaticamente">>

-----------------------------------------------------------------------------
(* The proposal_writer tools, as far as the orchestrator depends on them *)

\* The tool signatures take one argument, params, validated by the input
\* model: client_name is required and not empty.
ValidGenerateInput(arguments) ==
    /\ "params" \in DOMAIN arguments
    /\ "client_name" \in DOMAIN arguments.params
    /\ Len(arguments.params.client_name) > 0

\* generate_proposal: Markdown (the default) or JSON by output_format, or the
\* rendered error when the generative backend or the template fails.
GenerateProposalResults(arguments) ==
    IF ValidGenerateInput(arguments)
    THEN {ProposalMarkdown(arguments.params.client_name),
          ProposalJson(arguments.params.client_name),
          ApiError}
    ELSE {ValidationError}

ValidExportInput(arguments) ==
    /\ "params" \in DOMAIN arguments
    /\ {"proposal_markdown", "client_name"} \subseteq DOMAIN arguments.params
    /\ Len(arguments.params.proposal_markdown) > 0
    /\ Len(arguments.params.client_name) > 0

\* export_proposal_docx: the success value, or one of its two error values.
ExportResults(arguments) ==
    IF ValidExportInput(arguments)
    THEN {ExportSuccess, ExportNoDocx, ApiError}
    ELSE {ValidationError}

\* What an agent's MCP server answers to a tool call.
ServerResults(agent_id, tool, arguments) ==
    IF tool \notin Range(ServerTools(agent_id)) THEN {<<"Unknown tool">>}
    ELSE IF agent_id = proposal_writer /\ tool = generate_proposal
         THEN GenerateProposalResults(arguments)
    ELSE IF agent_id = proposal_writer /\ tool = export_proposal_docx
         THEN ExportResults(arguments)
    ELSE {<<"ok">>}

-----------------------------------------------------------------------------
(* MCPAgentPool *)

\* connect_agent for a card whose subprocess came up: _connections[id] = conn.
ConnectAgent(conns, agent_id) ==
    IF agent_id \in Range(conns) THEN conns ELSE Append(conns, agent_id)

\* Mutant: the tool lists of every registered agent, connected or not.
GetAllToolsOfRegistry(conns) ==
    [i \in 1..Len(AGENT_REGISTRY) |->
        [agent_id |-> AGENT_REGISTRY[i], tools |-> ServerTools(AGENT_REGISTRY[i])]]

\* get_all_tools: per connection, in order, the server's tool list.
GetAllTools(conns) ==
    [i \in 1..Len(conns) |-> [agent_id |-> conns[i], tools |-> ServerTools(conns[i])]]

\* MCPAgentConnection.call_tool on a live session: the server's text, or the
\* wrapped exception.
CallToolResults(agent_id, tool, arguments) ==
    ServerResults(agent_id, tool, arguments) \cup {ToolCallFailed}

\* Mutant: call_agent_tool without the test of the connection, so that a
\* missing connection is used as if it were one.
CallAgentToolUnchecked(conns, agent_id, tool, arguments) ==
    IF agent_id \notin Range(conns)
    THEN {<<"raise", "AttributeError">>}
    ELSE CallToolResults(agent_id, tool, arguments)

\* call_agent_tool: every text the call may return.
CallAgentToolResults(conns, agent_id, tool, arguments) ==
    IF agent_id \notin Range(conns)
    THEN {NotConnectedError(agent_id)}
    ELSE CallToolResults(agent_id, tool, arguments)

\* Every text _execute_tool_call may return for a tool call.
ExecuteResults(conns, tool_name, tool_input) ==
    LET e == ExecuteToolCall(tool_name, tool_input)
    IN IF e.kind = "error" THEN {e.text}
       ELSE CallAgentToolResults(conns, e.agent_id, e.tool, e.arguments)

\* _build_claude_tools: the advertised names, agent by agent, tool by tool.
RECURSIVE BuildClaudeTools(_)
BuildClaudeTools(tools_by_agent) ==
    IF tools_by_agent = << >> THEN << >>
    ELSE LET a == Head(tools_by_agent)
         IN [i \in 1..Len(a.tools) |-> CompositeName(a.agent_id, a.tools[i])]
              \o BuildClaudeTools(Tail(tools_by_agent))

-----------------------------------------------------------------------------
(* Orchestrator: the pieces of chat *)

max_iterations == 10

UpperCase == <<"A", "B", "C", "D", "E", "F", "G", "H", "I", "J", "K", "L", "M",
               "N", "O", "P", "Q", "R", "S", "T", "U", "V", "W", "X", "Y", "Z">>

LowerCase == <<"a", "b", "c", "d", "e", "f", "g", "h", "i", "j", "k", "l", "m",
               "n", "o", "p", "q", "r", "s", "t", "u", "v", "w", "x", "y", "z">>

\* str.lower(), character by character.
Lower(text) ==
    [i \in 1..Len(text) |->
        IF \E k \in 1..26 : UpperCase[k] = text[i]
        THEN LowerCase[CHOOSE k \in 1..26 : UpperCase[k] = text[i]]
        ELSE text[i]]

\* The document-request keywords: docx, word, exporta, documento.
DocxKeywords ==
    { <<"d", "o", "c", "x">>,
      <<"w", "o", "r", "d">>,
      <<"e", "x", "p", "o", "r", "t", "a">>,
      <<"d", "o", "c", "u", "m", "e", "n", "t", "o">> }

\* Mutant: the keywords are matched without lower().
WantsDocxCaseSensitive(message) == \E kw \in DocxKeywords : Contains(kw, message)

\* wants_docx = any(kw in user_message.lower() for kw in [...])
WantsDocx(message) == \E kw \in DocxKeywords : Contains(kw, Lower(message))

\* if self._pending_proposal_md and self._pending_proposal_client and wants_docx
ShouldAutoExport(md, client, message) ==
    Truthy(md) /\ Truthy(client) /\ WantsDocx(message)

\* Mutant: only "end_turn" ends the loop.
IsFinalEndTurnOnly(reason) == reason = "end_turn"

\* if stop_reason == "end_turn" or stop_reason != "tool_use"
IsFinal(reason) == reason = "end_turn" \/ reason # "tool_use"

\* final_text: the text blocks of the response, concatenated in order.
RECURSIVE FinalText(_)
FinalText(blocks) ==
    IF blocks = << >> THEN << >>
    ELSE (IF Head(blocks).type = "text" THEN Head(blocks).text ELSE << >>)
            \o FinalText(Tail(blocks))

\* Mutant: the loop stops after the first tool_use block.
NextToolUseFirstOnly(blocks, i) ==
    LET all == {j \in 1..Len(blocks) : blocks[j].type = "tool_use"}
    IN IF i # 0 \/ all = {} THEN 0 ELSE CHOOSE j \in all : \A k \in all : j <= k

\* Mutant: the loop goes straight to the last tool_use block.
NextToolUseLast(blocks, i) ==
    LET later == {j \in (i + 1)..Len(blocks) : blocks[j].type = "tool_use"}
    IN IF later = {} THEN 0 ELSE CHOOSE j \in later : \A k \in later : j >= k

\* The for loop over content_blocks: the next tool_use block after position
\* i, 0 when the loop is over.
NextToolUse(blocks, i) ==
    LET later == {j \in (i + 1)..Len(blocks) : blocks[j].type = "tool_use"}
    IN IF later = {} THEN 0 ELSE CHOOSE j \in later : \A k \in later : j <= k

\* The entry appended to tool_results for a block.
\* Mutant: the text of a failed call is not recorded.
ToolResultEmptyOnError(block, result) ==
    [type |-> "tool_result", tool_use_id |-> block.id,
     content |-> IF result = ToolCallFailed THEN << >> ELSE result]

ToolResult(block, result) ==
    [type |-> "tool_result", tool_use_id |-> block.id, content |-> result]

\* Mutant: the tool's name alone decides.
IsGeneratedProposalByName(tool_name, result) ==
    tool_name = CompositeName(proposal_writer, generate_proposal)

\* if tool_name == "proposal_writer__generate_proposal" and MARKER in result
IsGeneratedProposal(tool_name, result) ==
    /\ tool_name = CompositeName(proposal_writer, generate_proposal)
    /\ Contains(PROPOSAL_MARKER, result)

\* params = tool_input.get("params", tool_input); params.get("client_name", "Client")
ClientOf(tool_input) == Get(Get(tool_input, "params", tool_input), "client_name", <<"Client">>)

\* The pending pair after a tool call returned result.
PendingAfterTool(md, client, block, result) ==
    IF IsGeneratedProposal(block.name, result)
    THEN <<Some(result), Some(ClientOf(block.input))>>
    ELSE <<md, client>>

\* Mutant: the pending pair is not cleared.
PendingKeptAfterExport(md, client, export_result) == <<md, client>>

\* The pending pair after the auto-export call returned: cleared.
PendingAfterExport(md, client, export_result) == <<None, None>>

\* The text after the auto-export call returned.
TextAfterExport(text, export_result) == text \o SuccessNote \o export_result

ExportToolName == CompositeName(proposal_writer, export_proposal_docx)

\* The arguments of the auto-export call.
ExportToolInput(md, client) ==
    [params |-> [proposal_markdown |-> md.val,
                 client_name |-> client.val,
                 project_title |-> <<"Technical Proposal", " - ">> \o client.val]]

\* Mutant: one iteration too many.
LoopRunsOneMore(i) == i <= max_iterations

\* for iteration in range(max_iterations): whether iteration i runs.
LoopRuns(i) == i < max_iterations

-----------------------------------------------------------------------------
(* Inputs: user messages and model responses *)

Messages ==
    { <<"d", "o", "c", " ", "x">>,
      <<"a", " ", "D", "o", "c", "X">> }

Text(t) == [type |-> "text", text |-> t]

ToolUse(id, name, input) == [type |-> "tool_use", id |-> id, name |-> name, input |-> input]

EmptyInput == << >>

ProposalInput(client) == [params |-> [client_name |-> client]]

GenerateName == CompositeName(proposal_writer, generate_proposal)

RateCardName == CompositeName(pricing, get_rate_card)

\* The responses the scripted backend may give.
Responses ==
    { [stop_reason |-> "end_turn",
       content |-> <<Text(<<"a">>), Text(<<"b">>)>>],
      [stop_reason |-> "max_tokens",
       content |-> <<Text(<<"a">>), ToolUse("t1", GenerateName, ProposalInput(<<"acme">>)),
                     Text(<<"c">>)>>],
      [stop_reason |-> "tool_use",
       content |-> <<Text(<<"a">>), ToolUse("t1", GenerateName, ProposalInput(<<"acme">>))>>],
      [stop_reason |-> "tool_use",
       content |-> <<ToolUse("t2", GenerateName, ProposalInput(<<"zeta">>)),
                     ToolUse("t1", RateCardName, EmptyInput)>>],
      [stop_reason |-> "tool_use",
       content |-> <<ToolUse("t3", GenerateName, EmptyInput),
                     ToolUse("t1", RateCardName, EmptyInput)>>],
      [stop_reason |-> "tool_use",
       content |-> <<Text(<<"a">>)>>] }

\* The one response of a stub backend that always wants to use tools.
StubResponse ==
    [stop_reason |-> "tool_use", content |-> <<ToolUse("t0", <<"noop">>, EmptyInput)>>]

-----------------------------------------------------------------------------
(* Orchestrator: state machine *)

NoReturn == [kind |-> "none"]
Returned(text) == [kind |-> "text", text |-> text]
Raised == [kind |-> "raised"]

\* An _execute_tool_call invocation, as chat issues it.
Call(by, block) ==
    [by |-> by, iteration |-> iteration, id |-> block.id, name |-> block.name,
     input |-> block.input,
     pool |-> ExecuteToolCall(block.name, block.input).kind = "pool"]

Init ==
    /\ connections = << >>
    /\ history = << >>
    /\ pending_md = None
    /\ pending_client = None
    /\ pc = "idle"
    /\ user_message = << >>
    /\ claude_tools = << >>
    /\ iteration = 0
    /\ content_blocks = << >>
    /\ block_idx = 0
    /\ tool_results = << >>
    /\ final_text = << >>
    /\ stop_reason = "none"
    /\ export_log = << >>
    /\ ret = NoReturn
    /\ calls = << >>
    /\ model_calls = 0
    /\ backend = "scripted"
    /\ chats = 0
    /\ scripted = 0
    /\ life = "new"
    /\ route = [kind |-> "none"]
    /\ schema = [pool |-> "none"]
    /\ translation = [kind |-> "none"]
    /\ pools = [mcp |-> << >>, inprocess |-> << >>, connects |-> 0, all_up |-> TRUE, last |-> [op |-> "none"]]
    /\ retry = [pc |-> "idle"]
    /\ since_reset = [reset |-> FALSE, chats |-> 0]
    /\ bridge = [tasks |-> << >>, caller |-> "idle"]
    /\ invocation = [pc |-> "idle"]
    /\ tech_search = [kind |-> "none"]

\* Orchestrator.start: every registered card is connected unless its
\* subprocess fails to come up (the exception is logged and swallowed).
Start(up) ==
    /\ UNCHANGED <<route, schema, translation, pools, retry, since_reset, bridge, invocation, tech_search>>
    /\ pc = "idle"
    /\ life = "new"
    /\ life' = "started"
    /\ connections' = SelectSeq(AGENT_REGISTRY, LAMBDA a : a \in up)
    /\ UNCHANGED <<history, pending_md, pending_client, pc, user_message, claude_tools,
                   iteration, content_blocks, block_idx, tool_results, final_text,
                   stop_reason, export_log, ret, calls, model_calls, backend, chats,
                   scripted>>

\* Orchestrator.stop: disconnect_all.
Stop ==
    /\ UNCHANGED <<route, schema, translation, pools, retry, since_reset, bridge, invocation, tech_search>>
    /\ pc = "idle"
    /\ life = "started"
    /\ life' = "stopped"
    /\ connections' = << >>
    /\ UNCHANGED <<history, pending_md, pending_client, pc, user_message, claude_tools,
                   iteration, content_blocks, block_idx, tool_results, final_text,
                   stop_reason, export_log, ret, calls, model_calls, backend, chats,
                   scripted>>

\* chat, up to its first model call: tools discovered, user turn appended.
\* (chat does not look at the orchestrator's lifecycle.)
ChatBegins(message) ==
    /\ UNCHANGED <<route, schema, translation, pools, retry, bridge, invocation,
                   tech_search>>
    /\ since_reset' = [since_reset EXCEPT !.chats = @ + 1]
    /\ pc = "idle"
    /\ chats' = chats + 1
    /\ claude_tools' = BuildClaudeTools(GetAllTools(connections))
    /\ history' = Append(history, [role |-> "user", kind |-> "text", content |-> message])
    /\ user_message' = message
    /\ iteration' = 0
    /\ pc' = "model"
    /\ model_calls' = 1
    /\ calls' = << >>
    /\ backend' = "scripted"
    /\ ret' = NoReturn
    /\ content_blocks' = << >>
    /\ block_idx' = 0
    /\ tool_results' = << >>
    /\ final_text' = << >>
    /\ stop_reason' = "none"
    /\ UNCHANGED <<connections, pending_md, pending_client, export_log, scripted, life>>

\* chat on a started orchestrator.
ChatStart(message) ==
    /\ life = "started"
    /\ ChatBegins(message)

\* Mutant: the tool results replace the history instead of extending it.
FinishBatchTrimsHistory(h, results) ==
    /\ history' = <<[role |-> "user", kind |-> "tool_results", content |-> results]>>
    /\ content_blocks' = << >>
    /\ block_idx' = 0
    /\ tool_results' = << >>
    /\ IF LoopRuns(iteration + 1)
       THEN /\ iteration' = iteration + 1
            /\ pc' = "model"
            /\ model_calls' = model_calls + 1
            /\ ret' = ret
       ELSE /\ iteration' = iteration
            /\ pc' = "idle"
            /\ model_calls' = model_calls
            /\ ret' = Returned(MaxIterationsWarning)

\* The end of one loop iteration: the tool results become one user turn, and
\* the loop either calls the model again or gives up with the warning.
FinishBatch(h, results) ==
    /\ history' = Append(h, [role |-> "user", kind |-> "tool_results", content |-> results])
    /\ content_blocks' = << >>
    /\ block_idx' = 0
    /\ tool_results' = << >>
    /\ IF LoopRuns(iteration + 1)
       THEN /\ iteration' = iteration + 1
            /\ pc' = "model"
            /\ model_calls' = model_calls + 1
            /\ ret' = ret
       ELSE /\ iteration' = iteration
            /\ pc' = "idle"
            /\ model_calls' = model_calls
            /\ ret' = Returned(MaxIterationsWarning)

\* chat from the return of _call_claude to its next await or its return.
HandleResponse(response) ==
    LET h == Append(history, [role |-> "assistant", kind |-> "blocks",
                              content |-> response.content])
        first == NextToolUse(response.content, 0)
    IN /\ stop_reason' = response.stop_reason
       /\ IF IsFinal(response.stop_reason)
            THEN /\ history' = h
                 /\ IF ShouldAutoExport(pending_md, pending_client, user_message)
                      THEN /\ pc' = "export"
                           /\ final_text' = FinalText(response.content)
                           /\ calls' = Append(calls,
                                Call("auto", [id |-> "auto", name |-> ExportToolName,
                                              input |-> ExportToolInput(pending_md,
                                                                        pending_client)]))
                           /\ ret' = ret
                      ELSE /\ pc' = "idle"
                           /\ final_text' = << >>
                           /\ calls' = calls
                           /\ ret' = Returned(FinalText(response.content))
                 /\ UNCHANGED <<iteration, content_blocks, block_idx, tool_results,
                                model_calls>>
            ELSE IF first = 0
                 THEN /\ FinishBatch(h, << >>)
                      /\ UNCHANGED <<final_text, calls>>
                 ELSE /\ history' = h
                      /\ content_blocks' = response.content
                      /\ block_idx' = first
                      /\ tool_results' = << >>
                      /\ pc' = "tool"
                      /\ calls' = Append(calls, Call("model", response.content[first]))
                      /\ UNCHANGED <<iteration, final_text, model_calls, ret>>

\* _call_claude returns a response of the scripted backend.
ModelResponds(response) ==
    /\ UNCHANGED <<route, schema, translation, pools, retry, since_reset, bridge, invocation, tech_search>>
    /\ pc = "model"
    /\ backend = "scripted"
    /\ IF IsFinal(response.stop_reason)
       THEN scripted' = scripted
       ELSE scripted < MaxScripted /\ scripted' = scripted + 1
    /\ HandleResponse(response)
    /\ UNCHANGED <<connections, pending_md, pending_client, user_message, claude_tools,
                   export_log, backend, chats, life>>

\* _call_claude returns the response of the stub that always wants tools.
StubResponds ==
    /\ UNCHANGED <<route, schema, translation, pools, retry, since_reset, bridge, invocation, tech_search>>
    /\ pc = "model"
    /\ backend' = "stub"
    /\ HandleResponse(StubResponse)
    /\ UNCHANGED <<connections, pending_md, pending_client, user_message, claude_tools,
                   export_log, chats, scripted, life>>

\* _call_claude raises (an HTTP error status, a timeout, the rate limit
\* exhausted): chat raises to its caller.
ModelFails ==
    /\ UNCHANGED <<route, schema, translation, pools, retry, since_reset, bridge, invocation, tech_search>>
    /\ pc = "model"
    /\ backend = "scripted"
    /\ pc' = "idle"
    /\ ret' = Raised
    /\ UNCHANGED <<connections, history, pending_md, pending_client, user_message,
                   claude_tools, iteration, content_blocks, block_idx, tool_results,
                   final_text, stop_reason, export_log, calls, model_calls, backend, chats,
                   scripted, life>>

\* _execute_tool_call returns for the block at block_idx.
ToolReturned(result) ==
    /\ LET block == content_blocks[block_idx]
           results == Append(tool_results, ToolResult(block, result))
           pending == PendingAfterTool(pending_md, pending_client, block, result)
           next == NextToolUse(content_blocks, block_idx)
       IN /\ result \in ExecuteResults(connections, block.name, block.input)
          /\ pending_md' = pending[1]
          /\ pending_client' = pending[2]
          /\ IF next = 0
             THEN /\ FinishBatch(history, results)
                  /\ calls' = calls
             ELSE /\ tool_results' = results
                  /\ block_idx' = next
                  /\ calls' = Append(calls, Call("model", content_blocks[next]))
                  /\ UNCHANGED <<history, content_blocks, iteration, pc, model_calls, ret>>
    /\ UNCHANGED <<connections, user_message, claude_tools, final_text, stop_reason,
                   export_log, backend, chats, scripted, life>>

ToolReturns ==
    /\ UNCHANGED <<route, schema, translation, pools, retry, since_reset, bridge, invocation, tech_search>>
    /\ pc = "tool"
    /\ \E result \in ExecuteResults(connections, content_blocks[block_idx].name,
                                      content_blocks[block_idx].input) : ToolReturned(result)

\* The auto-export call returns; chat returns the text with the export note.
\* The call's input is the one built before the await (the last recorded
\* call).
\* (_execute_tool_call returns a text on every path, so the except branch
\* around the call is never taken.)
ExportReturned(result) ==
    /\ result \in ExecuteResults(connections, ExportToolName, calls[Len(calls)].input)
    /\ LET pending == PendingAfterExport(pending_md, pending_client, result)
       IN /\ pending_md' = pending[1]
          /\ pending_client' = pending[2]
    /\ ret' = Returned(TextAfterExport(final_text, result))
    /\ export_log' = Append(export_log, result)
    /\ final_text' = << >>
    /\ pc' = "idle"
    /\ UNCHANGED <<connections, history, user_message, claude_tools, iteration,
                   content_blocks, block_idx, tool_results, stop_reason, calls, model_calls,
                   backend, chats, scripted, life>>

ExportReturns ==
    /\ UNCHANGED <<route, schema, translation, pools, retry, since_reset, bridge, invocation, tech_search>>
    /\ pc = "export"
    /\ \E result \in ExecuteResults(connections, ExportToolName, calls[Len(calls)].input) :
          ExportReturned(result)

\* Mutant: reset_conversation clears the history only.
ResetConversationKeepsPending ==
    /\ UNCHANGED <<route, schema, translation, pools, retry, bridge, invocation, tech_search>>
    /\ pc = "idle"
    /\ history # << >>
    /\ history' = << >>
    /\ since_reset' = [reset |-> TRUE, chats |-> 0]
    /\ UNCHANGED <<connections, pending_md, pending_client, pc, user_message, claude_tools,
                   iteration, content_blocks, block_idx, tool_results, final_text,
                   stop_reason, export_log, ret, calls, model_calls, backend, chats,
                   scripted, life>>

\* reset_conversation, between chat calls.
ResetConversation ==
    /\ UNCHANGED <<route, schema, translation, pools, retry, bridge, invocation, tech_search>>
    /\ pc = "idle"
    /\ history # << >> \/ ~pending_md.isNone \/ ~pending_client.isNone
    /\ history' = << >>
    /\ pending_md' = None
    /\ pending_client' = None
    /\ since_reset' = [reset |-> TRUE, chats |-> 0]
    /\ UNCHANGED <<connections, pc, user_message, claude_tools, iteration, content_blocks,
                   block_idx, tool_results, final_text, stop_reason, export_log, ret, calls,
                   model_calls, backend, chats, scripted, life>>

\* Which subprocesses may come up at start.
StartOutcomes ==
    { Range(AGENT_REGISTRY), Range(AGENT_REGISTRY) \ {proposal_writer} }

\* One chat call of a started orchestrator, against a backend that gives any
\* of the scripted responses and may turn into the always-tool_use stub.
Next ==
    \/ \E up \in StartOutcomes : Start(up)
    \/ Stop
    \/ \E message \in Messages : chats = 0 /\ ChatStart(message)
    \/ \E response \in Responses : ModelResponds(response)
    \/ StubResponds
    \/ ModelFails
    \/ ToolReturns
    \/ ExportReturns
    \/ ResetConversation

Spec == Init /\ [][Next]_vars

\* The responses of the scripted backend in a session of several chat calls.
SessionResponses ==
    { r \in Responses :
        \/ r.stop_reason = "end_turn"
        \/ r.content = <<Text(<<"a">>), ToolUse("t1", GenerateName, ProposalInput(<<"acme">>))>> }

\* A session of several chat calls, each against a backend that answers at
\* most one scripted tool_use response, or is the stub from its first call.
SessionNext ==
    \/ \E up \in StartOutcomes : Start(up)
    \/ Stop
    \/ \E message \in Messages : chats < MaxChats /\ ChatStart(message)
    \/ \E response \in SessionResponses :
          /\ IsFinal(response.stop_reason) \/ iteration = 0
          /\ ModelResponds(response)
    \/ iteration = 0 /\ StubResponds
    \/ backend = "stub" /\ StubResponds
    \/ ModelFails
    \/ ToolReturns
    \/ ExportReturns
    \/ ResetConversation

SessionSpec == Init /\ [][SessionNext]_vars

-----------------------------------------------------------------------------
(* Tool input schemas *)

\* JSON values: a dict is its items in insertion order, each a <<key, value>>
\* pair; a list is its elements; a scalar is an atom holding its tokens.
Atom(x) == [t |-> "atom", v |-> x]
Dict(items) == [t |-> "dict", v |-> items]
List(elems) == [t |-> "list", v |-> elems]

Str(word) == Atom(<<word>>)

Keys(d) == {d.v[i][1] : i \in 1..Len(d.v)}

\* d[key], for a key of d.
Lookup(d, key) == d.v[CHOOSE i \in 1..Len(d.v) : d.v[i][1] = key][2]

\* d after d.pop(key, ...).
Pop(d, key) == Dict(SelectSeq(d.v, LAMBDA item : item[1] # key))

\* d after d[key] = value.
SetKey(d, key, value) ==
    IF key \in Keys(d)
    THEN Dict([i \in 1..Len(d.v) |-> IF d.v[i][1] = key THEN <<key, value>> ELSE d.v[i]])
    ELSE Dict(Append(d.v, <<key, value>>))

EmptyDict == Dict(<< >>)

NullType == Dict(<< <<"type", Str("null")>> >>)

\* The kinds of field the input models declare: a required scalar, an
\* Optional scalar, an Enum with a default (which the schema generator
\* renders as a reference with siblings, or wrapped in allOf, according to
\* its version), a list of scalars.
FieldKinds == {"scalar", "optional", "enum", "enum_allof", "list"}

FieldNames == <<"f1", "f2", "f3", "f4", "f5">>

EnumRef == Dict(<< <<"$ref", Atom(<<"#", "$defs", "ResponseFormat">>)>> >>)

EnumDef ==
    Dict(<< <<"enum", List(<<Str("markdown"), Str("json")>>)>>,
            <<"title", Str("ResponseFormat")>>,
            <<"type", Str("string")>> >>)

\* The schema of one field of an input model.
FieldSchema(kind) ==
    CASE kind = "scalar" ->
           Dict(<< <<"description", Str("text")>>, <<"type", Str("string")>> >>)
      [] kind = "optional" ->
           Dict(<< <<"anyOf", List(<<Dict(<< <<"type", Str("string")>> >>), NullType>>)>>,
                   <<"default", Str("null")>>,
                   <<"description", Str("text")>> >>)
      [] kind = "enum" ->
           Dict(EnumRef.v \o << <<"default", Str("markdown")>>,
                                 <<"description", Str("text")>> >>)
      [] kind = "enum_allof" ->
           Dict(<< <<"allOf", List(<<EnumRef>>)>>,
                   <<"default", Str("markdown")>>,
                   <<"description", Str("text")>> >>)
      [] kind = "list" ->
           Dict(<< <<"items", Dict(<< <<"type", Str("string")>> >>)>>,
                   <<"type", Str("array")>> >>)

HasEnum(fields) == \E i \in 1..Len(fields) : fields[i] \in {"enum", "enum_allof"}

\* The body of model_class.model_json_schema(): what follows its $defs.
ModelBody(fields) ==
    Dict(<< <<"properties",
              Dict([i \in 1..Len(fields) |-> <<FieldNames[i], FieldSchema(fields[i])>>])>>,
            <<"title", Str("Input")>>,
            <<"type", Str("object")>> >>)

EnumDefs == << <<"ResponseFormat", EnumDef>> >>

\* model_class.model_json_schema() of an input model with these fields.
ModelJsonSchema(fields) ==
    IF HasEnum(fields)
    THEN Dict(<< <<"$defs", Dict(EnumDefs)>> >> \o ModelBody(fields).v)
    ELSE ModelBody(fields)

\* tool.inputSchema of a server tool declared with the one argument
\* params: the model becomes a definition next to its own definitions.
ServerInputSchema(fields) ==
    Dict(<< <<"$defs", Dict((IF HasEnum(fields) THEN EnumDefs ELSE << >>)
                              \o << <<"Input", ModelBody(fields)>> >>)>>,
            <<"properties",
              Dict(<< <<"params", Dict(<< <<"$ref", Atom(<<"#", "$defs", "Input">>)>> >>)>> >>)>>,
            <<"required", List(<<Str("params")>>)>>,
            <<"type", Str("object")>> >>)

\* inprocess_pool._build_tool_schema: the model's schema with $defs removed.
BuildToolSchema(fields) == Pop(ModelJsonSchema(fields), "$defs")

\* The keys an anyOf collapse carries over to the surviving alternative.
PreservedKeys == <<"description", "default", "title">>

RECURSIVE CopyKeys(_, _, _)
CopyKeys(resolved, obj, keys) ==
    IF keys = << >> THEN resolved
    ELSE CopyKeys(IF Head(keys) \in Keys(obj)
                  THEN SetKey(resolved, Head(keys), Lookup(obj, Head(keys)))
                  ELSE resolved,
                  obj, Tail(keys))

\* The inner _resolve of _resolve_schema_refs.
RECURSIVE Resolve(_, _)
Resolve(defs, obj) ==
    IF obj.t = "dict"
    THEN IF "$ref" \in Keys(obj)
         THEN LET ref_path == Lookup(obj, "$ref").v
                  ref_name == ref_path[Len(ref_path)]
              IN IF ref_name \in Keys(defs)
                 THEN Resolve(defs, Lookup(defs, ref_name))
                 ELSE obj
         ELSE LET non_null == IF "anyOf" \in Keys(obj)
                              THEN SelectSeq(Lookup(obj, "anyOf").v,
                                             LAMBDA alt : alt # NullType)
                              ELSE << >>
              IN IF "anyOf" \in Keys(obj) /\ Len(non_null) = 1
                 THEN CopyKeys(Resolve(defs, non_null[1]), obj, PreservedKeys)
                 ELSE Dict([i \in 1..Len(obj.v) |->
                              <<obj.v[i][1], Resolve(defs, obj.v[i][2])>>])
    ELSE IF obj.t = "list"
    THEN List([i \in 1..Len(obj.v) |-> Resolve(defs, obj.v[i])])
    ELSE obj

\* _resolve_schema_refs: defs = schema.pop("$defs", {}); _resolve(schema).
ResolveSchemaRefs(raw) ==
    LET defs == IF "$defs" \in Keys(raw) THEN Lookup(raw, "$defs") ELSE EmptyDict
    IN Resolve(defs, Pop(raw, "$defs"))

\* The input models a tool may declare.
InputModels == SeqsOf(FieldKinds, 1, MaxFields)

\* A tool of a subprocess agent is discovered (list_tools) and advertised.
\* (Each behaviour looks at one tool: its schema depends on nothing else.)
DiscoverOverMCP(fields) ==
    /\ schema.pool = "none"
    /\ LET raw == ServerInputSchema(fields)
       IN schema' = [pool |-> "mcp", fields |-> fields, raw |-> raw,
                     input_schema |-> ResolveSchemaRefs(raw)]
    /\ UNCHANGED <<chat_vars, route, translation, pools, retry, since_reset, bridge, invocation, tech_search>>

\* A tool of the in-process pool is discovered (get_all_tools) and advertised.
DiscoverInProcess(fields) ==
    /\ schema.pool = "none"
    /\ LET raw == BuildToolSchema(fields)
       IN schema' = [pool |-> "inprocess", fields |-> fields, raw |-> raw,
                     input_schema |-> ResolveSchemaRefs(raw)]
    /\ UNCHANGED <<chat_vars, route, translation, pools, retry, since_reset, bridge, invocation, tech_search>>

SchemaNext ==
    \/ \E fields \in InputModels : DiscoverOverMCP(fields)
    \/ \E fields \in InputModels : DiscoverInProcess(fields)

SchemaSpec == Init /\ [][SchemaNext]_vars

-----------------------------------------------------------------------------
(* Schema translation on its own: _resolve_schema_refs *)

\* The alternatives of obj["anyOf"] other than {"type": "null"}.
NonNull(obj) == SelectSeq(Lookup(obj, "anyOf").v, LAMBDA alt : alt # NullType)

\* Whether _resolve(obj) recurses without end: it follows a reference to a
\* definition it is already expanding (open), so the same expansion repeats
\* until the interpreter gives up with RecursionError.  The walk visits what
\* _resolve visits.
RECURSIVE Diverges(_, _, _)
Diverges(defs, obj, open) ==
    IF obj.t = "dict"
    THEN IF "$ref" \in Keys(obj)
         THEN LET ref_path == Lookup(obj, "$ref").v
                  ref_name == ref_path[Len(ref_path)]
              IN /\ ref_name \in Keys(defs)
                 /\ \/ ref_name \in open
                    \/ Diverges(defs, Lookup(defs, ref_name), open \cup {ref_name})
         ELSE IF "anyOf" \in Keys(obj) /\ Len(NonNull(obj)) = 1
              THEN Diverges(defs, NonNull(obj)[1], open)
              ELSE \E i \in 1..Len(obj.v) : Diverges(defs, obj.v[i][2], open)
    ELSE IF obj.t = "list"
    THEN \E i \in 1..Len(obj.v) : Diverges(defs, obj.v[i], open)
    ELSE FALSE

\* What a call of _resolve_schema_refs gives its caller: the translated
\* schema, or the RecursionError of a recursion without end.
ResolveOutcome(raw) ==
    LET defs == IF "$defs" \in Keys(raw) THEN Lookup(raw, "$defs") ELSE EmptyDict
    IN IF Diverges(defs, Pop(raw, "$defs"), {})
       THEN [kind |-> "raised", error |-> "RecursionError"]
       ELSE [kind |-> "value", val |-> ResolveSchemaRefs(raw)]

\* A field whose items are the model itself, as a model that holds a list
\* of its own kind declares.
SelfListField ==
    Dict(<< <<"items", Dict(<< <<"$ref", Atom(<<"#", "$defs", "Input">>)>> >>)>>,
            <<"type", Str("array")>> >>)

\* tool.inputSchema of a server tool whose input model refers to itself.
RecursiveInputSchema(fields) ==
    LET body == ModelBody(fields)
        props == Lookup(body, "properties")
        node == SetKey(body, "properties", SetKey(props, "children", SelfListField))
    IN Dict(<< <<"$defs", Dict((IF HasEnum(fields) THEN EnumDefs ELSE << >>)
                                 \o << <<"Input", node>> >>)>>,
               <<"properties",
                 Dict(<< <<"params",
                           Dict(<< <<"$ref", Atom(<<"#", "$defs", "Input">>)>> >>)>> >>)>>,
               <<"required", List(<<Str("params")>>)>>,
               <<"type", Str("object")>> >>)

\* The schemas _resolve_schema_refs may be given.
Schemas ==
    UNION { {ServerInputSchema(fields), ModelJsonSchema(fields), BuildToolSchema(fields),
             RecursiveInputSchema(fields)} : fields \in InputModels }

\* _resolve_schema_refs is applied to a schema, and then to its own result.
\* (Each behaviour looks at one schema: the function keeps no state.)
TranslateSchema(raw) ==
    /\ translation.kind = "none"
    /\ LET once == ResolveOutcome(raw)
       IN translation' = [kind |-> "done", raw |-> raw, once |-> once,
                          twice |-> IF once.kind = "value" THEN ResolveOutcome(once.val)
                                    ELSE once]
    /\ UNCHANGED <<chat_vars, route, schema, pools, retry, since_reset, bridge, invocation, tech_search>>

TranslateNext == \E raw \in Schemas : TranslateSchema(raw)

TranslateSpec == Init /\ [][TranslateNext]_vars

-----------------------------------------------------------------------------
(* The two Tool Pool variants, driven by the same operations *)

\* An exception that reaches the caller, written as an outcome.
Raise(e) == <<"raise", e>>

ToolNotFoundError(agent_id, tool) ==
    <<"{", "error", "Tool">> \o tool \o <<"not found on agent">> \o agent_id \o <<"}">>

\* key in _TOOL_REGISTRY
InToolRegistry(agent_id, tool) == tool \in Range(ServerTools(agent_id))

\* Whether the tool function gets to run on these arguments: the input
\* model accepts them.
AcceptsInput(agent_id, tool, arguments) ==
    IF agent_id = proposal_writer /\ tool = generate_proposal
    THEN ValidGenerateInput(arguments)
    ELSE IF agent_id = proposal_writer /\ tool = export_proposal_docx
    THEN ValidExportInput(arguments)
    ELSE TRUE

\* MCPAgentPool.call_agent_tool: whether a tool function runs, and the text.
MCPCallOutcomes(conns, agent_id, tool, arguments) ==
    { [ran |-> /\ agent_id \in Range(conns)
               /\ InToolRegistry(agent_id, tool)
               /\ AcceptsInput(agent_id, tool, arguments)
               /\ result # ToolCallFailed,
       result |-> result] :
      result \in CallAgentToolResults(conns, agent_id, tool, arguments) }

\* InProcessAgentPool.connect_agent (every registered card is AVAILABLE).
InProcessConnectAgent(connected, agent_id) == Append(connected, agent_id)

\* InProcessAgentPool.get_all_tools: the registry's entries, in its order,
\* of the agents in _connected.
InProcessGetAllTools(connected) ==
    LET present == SelectSeq(AGENT_REGISTRY, LAMBDA a : a \in Range(connected))
    IN [i \in 1..Len(present) |-> [agent_id |-> present[i], tools |-> ServerTools(present[i])]]

\* InProcessAgentPool.call_agent_tool: whether the tool function runs, and
\* the text.  _connected is not looked at.
InProcessCallOutcomes(connected, agent_id, tool, arguments) ==
    IF ~InToolRegistry(agent_id, tool)
    THEN {[ran |-> FALSE, result |-> ToolNotFoundError(agent_id, tool)]}
    ELSE IF ~AcceptsInput(agent_id, tool, arguments)
    THEN {[ran |-> FALSE, result |-> ToolCallFailed]}
    ELSE {[ran |-> TRUE, result |-> result] :
            result \in ServerResults(agent_id, tool, arguments) \cup {ToolCallFailed}}

\* The argument objects a caller may pass.
Arguments == {EmptyInput, ProposalInput(<<"acme">>)}

\* The agent ids and tool names a caller may pass.
CallAgents == {proposal_writer, pricing, <<"ghost">>}
CallTools == {generate_proposal, get_rate_card, <<"nope">>}

\* connect_agent(card) on both pools; the subprocess comes up or not.
PoolConnectAgent(agent_id, up) ==
    /\ pools.connects < MaxConnects
    /\ pools' = [pools EXCEPT
                   !.mcp = IF up THEN ConnectAgent(@, agent_id) ELSE @,
                   !.inprocess = InProcessConnectAgent(@, agent_id),
                   !.connects = @ + 1,
                   !.all_up = @ /\ up,
                   !.last = [op |-> "connect_agent", agent_id |-> agent_id]]
    /\ UNCHANGED <<chat_vars, route, schema, translation, retry, since_reset, bridge, invocation, tech_search>>

\* disconnect_all on both pools.
PoolDisconnectAll ==
    /\ pools.last.op # "disconnect_all"
    /\ pools' = [pools EXCEPT !.mcp = << >>, !.inprocess = << >>,
                               !.last = [op |-> "disconnect_all"]]
    /\ UNCHANGED <<chat_vars, route, schema, translation, retry, since_reset, bridge, invocation, tech_search>>

\* get_available_agents and get_all_tools on both pools.
PoolListing ==
    /\ pools.last.op # "listing"
    /\ pools' = [pools EXCEPT
                   !.last = [op |-> "listing",
                             mcp_agents |-> pools.mcp,
                             inprocess_agents |-> pools.inprocess,
                             mcp_tools |-> GetAllTools(pools.mcp),
                             inprocess_tools |-> InProcessGetAllTools(pools.inprocess)]]
    /\ UNCHANGED <<chat_vars, route, schema, translation, retry, since_reset, bridge, invocation, tech_search>>

\* call_agent_tool with the same arguments on both pools.
PoolCallAgentTool(agent_id, tool, arguments) ==
    /\ \E m \in MCPCallOutcomes(pools.mcp, agent_id, tool, arguments),
          i \in InProcessCallOutcomes(pools.inprocess, agent_id, tool, arguments) :
          pools' = [pools EXCEPT
                      !.last = [op |-> "call_agent_tool", agent_id |-> agent_id,
                                tool |-> tool, arguments |-> arguments,
                                mcp |-> m, inprocess |-> i]]
    /\ UNCHANGED <<chat_vars, route, schema, translation, retry, since_reset, bridge, invocation, tech_search>>

PoolNext ==
    \/ \E agent_id \in Range(AGENT_REGISTRY), up \in BOOLEAN : PoolConnectAgent(agent_id, up)
    \/ PoolDisconnectAll
    \/ PoolListing
    \/ \E agent_id \in CallAgents, tool \in CallTools, arguments \in Arguments :
          PoolCallAgentTool(agent_id, tool, arguments)

PoolSpec == Init /\ [][PoolNext]_vars

-----------------------------------------------------------------------------
(* Sessions in which agents disconnect and connect again between chat calls *)

\* Orchestrator.start called again after stop.
Restart(up) ==
    /\ UNCHANGED <<route, schema, translation, pools, retry, since_reset, bridge, invocation,
                   tech_search>>
    /\ pc = "idle"
    /\ life = "stopped"
    /\ life' = "started"
    /\ connections' = SelectSeq(AGENT_REGISTRY, LAMBDA a : a \in up)
    /\ UNCHANGED <<history, pending_md, pending_client, pc, user_message, claude_tools,
                   iteration, content_blocks, block_idx, tool_results, final_text,
                   stop_reason, export_log, ret, calls, model_calls, backend, chats,
                   scripted>>

\* chat on an orchestrator that was never started, or was stopped.
ChatWhileNotStarted(message) ==
    /\ life # "started"
    /\ chats < MaxChats
    /\ ChatBegins(message)

LifecycleNext ==
    \/ SessionNext
    \/ \E up \in StartOutcomes : Restart(up)
    \/ \E message \in Messages : ChatWhileNotStarted(message)

LifecycleSpec == Init /\ [][LifecycleNext]_vars

-----------------------------------------------------------------------------
(* reset_conversation through the bridge, while a chat call is running *)

\* OrchestratorBridge.reset_conversation: the caller's thread runs
\* Orchestrator.reset_conversation directly, not on the orchestrator's loop,
\* so it may fall between two steps of a chat call that is at an await.
BridgeResetConversation ==
    /\ UNCHANGED <<route, schema, translation, pools, retry, bridge, invocation, tech_search>>
    /\ pc # "idle"
    /\ history # << >> \/ ~pending_md.isNone \/ ~pending_client.isNone
    /\ history' = << >>
    /\ pending_md' = None
    /\ pending_client' = None
    /\ since_reset' = [reset |-> TRUE, chats |-> 0]
    /\ UNCHANGED <<connections, pc, user_message, claude_tools, iteration, content_blocks,
                   block_idx, tool_results, final_text, stop_reason, export_log, ret, calls,
                   model_calls, backend, chats, scripted, life>>

\* A session in which reset_conversation may also come mid-loop.
BridgeResetNext ==
    \/ SessionNext
    \/ BridgeResetConversation

BridgeResetSpec == Init /\ [][BridgeResetNext]_vars

-----------------------------------------------------------------------------
(* The agents' tools that ask the search backend and the generative model *)

\* A string by its lengths: pad whitespace characters around a body of
\* body characters that neither begins nor ends with whitespace.
Padded(pad, body) == [pad |-> pad, body |-> body]

\* str_strip_whitespace=True
StripWhitespace(s) == Padded(0, s.body)

Length(s) == s.pad + s.body

\* The tools that parse the generative model's answer as JSON.
ParsingTools ==
    {"search_company_info", "analyze_rfp_document", "search_linkedin_company",
     "generate_timeline", "estimate_project"}

\* The tools that ask the search backend first.
SearchingTools == {"search_company_info", "search_linkedin_company"}

\* The constraints of a tool's input model: the bounds of its required text
\* field (max_length 0: none), and the bounds of its optional number field
\* (has_number FALSE: the model has none).
InputConstraints(name) ==
    CASE name = "search_company_info" ->
           [min_length |-> 1, max_length |-> 200, has_number |-> FALSE, ge |-> 0, le |-> 0]
      [] name = "search_linkedin_company" ->
           [min_length |-> 1, max_length |-> 200, has_number |-> FALSE, ge |-> 0, le |-> 0]
      [] name = "analyze_rfp_document" ->
           [min_length |-> 10, max_length |-> 0, has_number |-> FALSE, ge |-> 0, le |-> 0]
      [] name = "generate_timeline" ->
           [min_length |-> 10, max_length |-> 0, has_number |-> TRUE, ge |-> 2, le |-> 104]
      [] name = "estimate_project" ->
           [min_length |-> 10, max_length |-> 0, has_number |-> TRUE, ge |-> 2, le |-> 104]

\* The values of the output-format enumeration.
FormatValues == {"markdown", "json"}

\* Mutant: the length is tested on the text as given.
TextErrorsUnstripped(c, text) ==
    IF Length(text) < c.min_length THEN {"string_too_short"}
    ELSE IF c.max_length > 0 /\ Length(text) > c.max_length THEN {"string_too_long"}
    ELSE {}

\* The causes pydantic finds in the text field: the length bounds apply to
\* the stripped text.
TextErrors(c, text) ==
    LET n == Length(StripWhitespace(text))
    IN IF n < c.min_length THEN {"string_too_short"}
       ELSE IF c.max_length > 0 /\ n > c.max_length THEN {"string_too_long"}
       ELSE {}

\* model_class(**args): the field-level causes of a ValidationError.
ValidationErrors(name, input) ==
    LET c == InputConstraints(name)
    IN TextErrors(c, input.text)
       \cup (IF input.number.isNone THEN {}
             ELSE IF ~c.has_number THEN {"extra_forbidden"}
             ELSE IF input.number.val < c.ge THEN {"greater_than_equal"}
             ELSE IF input.number.val > c.le THEN {"less_than_equal"}
             ELSE {})
       \cup (IF input.format \in FormatValues THEN {} ELSE {"enum"})
       \cup (IF input.extra THEN {"extra_forbidden"} ELSE {})

\* The number of search queries of the tool for this input.
Queries(name, input) ==
    IF name = "search_linkedin_company" /\ input.decision_makers THEN 2 ELSE 1

\* Outcomes of a tool call through the pool.
ToolResultOutcome(fallback) == [kind |-> "result", fallback |-> fallback]
ToolErrorOutcome(error) == [kind |-> "error", error |-> error, raw_response |-> -1]
ParseErrorOutcome(raw) == [kind |-> "error", error |-> "Failed to parse", raw_response |-> raw]

\* claude_response[:500], by its length
RawResponse(text) == IF text.len > 500 THEN 500 ELSE text.len

\* handle_api_error
HandleApiError(e) ==
    CASE e = "HTTPStatusError" -> ToolErrorOutcome("API request failed")
      [] e = "TimeoutException" -> ToolErrorOutcome("Request timed out")
      [] e = "ConnectError" -> ToolErrorOutcome("Could not connect")
      [] OTHER -> ToolErrorOutcome("Unexpected error")

\* A failure that reaches a tool's except clauses.  The JSONDecodeError
\* clause of the agents' tools reads claude_response; when the error comes
\* from response.json() of a request, before claude_response is bound, the
\* clause itself fails with UnboundLocalError, which leaves the tool and is
\* caught by the pool.
OnToolException(e) ==
    IF e = "JSONDecodeError"
    THEN ToolErrorOutcome("Tool call failed")
    ELSE HandleApiError(e)

\* What the inputs of a tool call may be.
TextValues == {Padded(p, b) : p \in {0, 1}, b \in {0, 1, 9, 10, 200, 201}}
NumberValues == {None} \cup {Some(n) : n \in {1, 2, 104, 105}}
ToolInputs ==
    [text : TextValues, number : NumberValues, format : {"markdown", "json", "xml"},
     extra : BOOLEAN, decision_makers : BOOLEAN]

\* What the search backend may answer: a number of results and whether an
\* answer summary comes with them.
SearchAnswers == [results : {0, 1, 2}, answer : BOOLEAN]

\* What the generative model's text may be: the JSON object asked for, JSON
\* of another shape, or no JSON at all; and its length.
ModelTexts == [kind : {"object", "other_json", "not_json"}, len : {20, 500, 501, 2000}]

\* What a request may raise.
SearchErrors == {"HTTPStatusError", "TimeoutException", "ConnectError", "JSONDecodeError"}
ModelErrors == SearchErrors \cup {"RuntimeError"}

\* call_agent_tool: the input is validated, and only then the tool function
\* starts and runs to its first request.
ToolCalled(name, input) ==
    /\ invocation.pc = "idle"
    /\ input.decision_makers => name = "search_linkedin_company"
    /\ LET errors == ValidationErrors(name, input)
           base == [name |-> name, input |-> input, errors |-> errors, searches |-> 0,
                    found |-> 0, answer |-> FALSE, text |-> [kind |-> "none", len |-> 0]]
       IN IF errors # {}
          THEN invocation' = base @@ [pc |-> "done", requests |-> << >>,
                                outcome |-> ToolErrorOutcome("Tool call failed")]
          ELSE IF name \in SearchingTools
          THEN invocation' = base @@ [pc |-> "search", requests |-> <<"search">>,
                                outcome |-> [kind |-> "none"]]
          ELSE invocation' = base @@ [pc |-> "model", requests |-> <<"model">>,
                                outcome |-> [kind |-> "none"]]
    /\ UNCHANGED <<chat_vars, route, schema, translation, pools, retry, since_reset, bridge, tech_search>>

\* The "No results found for '<name>'" error; the name is the validated
\* (stripped) one.
NoResultsOutcome(name, input) ==
    [kind |-> "error",
     error |-> IF name = "search_company_info" THEN "No results found for"
               ELSE "No LinkedIn results found for",
     subject |-> StripWhitespace(input.text), raw_response |-> -1]

\* Mutant: the tool goes on whatever the search gave.
NothingFoundNever(name, found, a) == FALSE

\* if not results and not tavily_answer (search_company_info);
\* if not all_results (search_linkedin_company, which drops the summary)
NothingFound(name, found, a) ==
    IF name = "search_company_info"
    THEN a.results = 0 /\ ~a.answer
    ELSE found = 0

\* search_web returns: the tool goes on to its next query, gives up without
\* results, or asks the generative model.
SearchReturns(a) ==
    /\ invocation.pc = "search"
    /\ LET searches == invocation.searches + 1
           found == invocation.found + a.results
           nothing == NothingFound(invocation.name, found, a)
       IN IF searches < Queries(invocation.name, invocation.input)
          THEN invocation' = [invocation EXCEPT !.searches = searches, !.found = found,
                                    !.requests = Append(@, "search")]
          ELSE IF nothing
          THEN invocation' = [invocation EXCEPT !.searches = searches, !.found = found,
                                    !.answer = a.answer, !.pc = "done",
                                    !.outcome = NoResultsOutcome(invocation.name,
                                                                 invocation.input)]
          ELSE invocation' = [invocation EXCEPT !.searches = searches, !.found = found,
                                    !.answer = a.answer, !.pc = "model",
                                    !.requests = Append(@, "model")]
    /\ UNCHANGED <<chat_vars, route, schema, translation, pools, retry, since_reset, bridge, tech_search>>

\* search_web raises.
SearchFails(e) ==
    /\ invocation.pc = "search"
    /\ invocation' = [invocation EXCEPT !.pc = "done", !.outcome = OnToolException(e)]
    /\ UNCHANGED <<chat_vars, route, schema, translation, pools, retry, since_reset, bridge, tech_search>>

\* What a tool makes of the generative model's text.
Parsed(name, text) ==
    IF name = "estimate_project"
    THEN \* _analyze_scope_with_claude: any exception gives the fallback
         \* estimate, and estimate_project renders it
         CASE text.kind = "not_json" -> {ToolResultOutcome(TRUE)}
           [] text.kind = "other_json" ->
                {ToolResultOutcome(FALSE), ToolErrorOutcome("Unexpected error")}
           [] OTHER -> {ToolResultOutcome(FALSE)}
    ELSE CASE text.kind = "not_json" -> {ParseErrorOutcome(RawResponse(text))}
           [] text.kind = "other_json" ->
                IF name = "search_linkedin_company"
                THEN {ToolResultOutcome(FALSE), ToolErrorOutcome("Unexpected error")}
                ELSE {ToolErrorOutcome("Unexpected error")}
           [] OTHER -> {ToolResultOutcome(FALSE)}

\* The model wrapper returns the model's text; the tool parses it and returns.
ModelReturns(text) ==
    /\ invocation.pc = "model"
    /\ \E out \in Parsed(invocation.name, text) :
          invocation' = [invocation EXCEPT !.pc = "done", !.text = text, !.outcome = out]
    /\ UNCHANGED <<chat_vars, route, schema, translation, pools, retry, since_reset, bridge, tech_search>>

\* The model wrapper raises; _analyze_scope_with_claude turns every
\* exception into its fallback estimate and returns None after five rate
\* limited attempts, on which estimate_project fails.
ModelRaises(e) ==
    /\ invocation.pc = "model"
    /\ invocation' = [invocation EXCEPT !.pc = "done",
                            !.outcome = IF invocation.name = "estimate_project"
                                        THEN IF e = "RuntimeError"
                                             THEN ToolErrorOutcome("Unexpected error")
                                             ELSE ToolResultOutcome(TRUE)
                                        ELSE OnToolException(e)]
    /\ UNCHANGED <<chat_vars, route, schema, translation, pools, retry, since_reset, bridge, tech_search>>

ToolNext ==
    \/ \E name \in ParsingTools, input \in ToolInputs : ToolCalled(name, input)
    \/ \E a \in SearchAnswers : SearchReturns(a)
    \/ \E e \in SearchErrors : SearchFails(e)
    \/ \E text \in ModelTexts : ModelReturns(text)
    \/ \E e \in ModelErrors : ModelRaises(e)

ToolSpec == Init /\ [][ToolNext]_vars

-----------------------------------------------------------------------------

(* The knowledge base's search by technology *)

\* Technology names, as character sequences.
Techs == {<<"a">>, <<"A">>, <<"b">>, <<"B">>, <<"c">>}

\* The tech_stack lists a project of the knowledge base may have.
Stacks == {<< >>, <<<<"A">>>>, <<<<"a">>, <<"b">>>>, <<<<"B">>, <<"c">>>>,
           <<<<"a">>, <<"b">>, <<"c">>>>}

\* {t.lower() for t in technologies}
LowerSet(technologies) == {Lower(technologies[i]) : i \in 1..Len(technologies)}

\* Mutant: a project matches when it has any of the technologies, whatever
\* match_all says.
MatchesAny(match_all, search_techs, matched_techs) == matched_techs # {}

\* if match_all and matched_techs == search_techs: ...
\* elif not match_all and matched_techs: ...
Matches(match_all, search_techs, matched_techs) ==
    IF match_all THEN matched_techs = search_techs ELSE matched_techs # {}

\* The loop over the projects: (project, matched count) for each project
\* that matches, in the order of the knowledge base.
RECURSIVE Scan(_, _, _, _)
Scan(projects, k, search_techs, match_all) ==
    IF k > Len(projects) THEN << >>
    ELSE LET matched_techs == search_techs \cap LowerSet(projects[k])
             rest == Scan(projects, k + 1, search_techs, match_all)
         IN IF Matches(match_all, search_techs, matched_techs)
            THEN <<[project |-> k, matched_count |-> Cardinality(matched_techs)]>> \o rest
            ELSE rest

\* results.sort(key=lambda x: x[1], reverse=True): by matched count, highest
\* first; entries of equal count keep their order.
RECURSIVE SortByCount(_, _)
SortByCount(results, count) ==
    IF count = 0 THEN << >>
    ELSE SelectSeq(results, LAMBDA r : r.matched_count = count)
           \o SortByCount(results, count - 1)

\* search_tech_stack: the message object when nothing matches, else the
\* matching projects with their counts.
TechStackOutcome(projects, technologies, match_all) ==
    LET search_techs == LowerSet(technologies)
        results == SortByCount(Scan(projects, 1, search_techs, match_all),
                               Cardinality(search_techs))
    IN IF results = << >>
       THEN [kind |-> "message", results |-> << >>]
       ELSE [kind |-> "results", results |-> results]

\* One call of search_tech_stack on a knowledge base.
SearchTechStack(projects, technologies, match_all) ==
    /\ tech_search.kind = "none"
    /\ tech_search' = [kind |-> "searched", projects |-> projects,
                       technologies |-> technologies, match_all |-> match_all,
                       outcome |-> TechStackOutcome(projects, technologies, match_all)]
    /\ UNCHANGED <<chat_vars, route, schema, translation, pools, retry, since_reset, bridge,
                   invocation>>

TechStackNext ==
    \E projects \in SeqsOf(Stacks, 1, MaxProjects),
       technologies \in SeqsOf(Techs, 1, MaxTechs),
       match_all \in BOOLEAN :
          SearchTechStack(projects, technologies, match_all)

TechStackSpec == Init /\ [][TechStackNext]_vars

-----------------------------------------------------------------------------

(* OrchestratorBridge: chat calls submitted to the orchestrator's loop *)

\* A chat coroutine on the loop: not yet started, suspended at one of its
\* awaits (the model call, a tool call), or finished.  abandoned: its
\* caller stopped waiting for it.
Task(at, awaits, abandoned) == [at |-> at, awaits |-> awaits, abandoned |-> abandoned]

\* The coroutine the calling thread is blocked on.
Awaited == Len(bridge.tasks)

\* OrchestratorBridge.chat up to future.result: run_coroutine_threadsafe
\* schedules the coroutine on the loop and the calling thread blocks.
BridgeChat ==
    /\ bridge.caller = "idle"
    /\ Len(bridge.tasks) < MaxBridgeChats
    /\ bridge' = [tasks |-> Append(bridge.tasks, Task("scheduled", 0, FALSE)),
                  caller |-> "waiting"]
    /\ UNCHANGED <<chat_vars, route, schema, translation, pools, retry, since_reset, invocation, tech_search>>

\* The loop runs coroutine k from where it stands to its next await: the
\* loop runs one callback at a time, starts coroutines in the order they
\* were submitted, and resumes any coroutine whose await is over.
LoopRunsToAwait(k) ==
    /\ bridge.tasks[k].at \in {"scheduled", "awaiting"}
    /\ bridge.tasks[k].at = "scheduled" =>
          \A j \in 1..(k - 1) : bridge.tasks[j].at # "scheduled"
    /\ bridge.tasks[k].awaits < MaxAwaits
    /\ bridge' = [bridge EXCEPT !.tasks[k] = Task("awaiting", @.awaits + 1, @.abandoned)]
    /\ UNCHANGED <<chat_vars, route, schema, translation, pools, retry, since_reset, invocation, tech_search>>

\* The loop runs coroutine k from its last await to its return (or raise).
LoopRunsToEnd(k) ==
    /\ bridge.tasks[k].at = "awaiting"
    /\ bridge' = [bridge EXCEPT !.tasks[k] = Task("done", @.awaits, @.abandoned)]
    /\ UNCHANGED <<chat_vars, route, schema, translation, pools, retry, since_reset, invocation, tech_search>>

\* future.result returns (or re-raises) once the coroutine is finished.
BridgeChatReturns ==
    /\ bridge.caller = "waiting"
    /\ bridge.tasks[Awaited].at = "done"
    /\ bridge' = [bridge EXCEPT !.caller = "idle"]
    /\ UNCHANGED <<chat_vars, route, schema, translation, pools, retry, since_reset, invocation, tech_search>>

\* future.result(timeout=300.0) raises TimeoutError: the calling thread
\* goes on; nothing cancels the future, so the coroutine stays on the loop.
BridgeChatTimesOut ==
    /\ bridge.caller = "waiting"
    /\ bridge.tasks[Awaited].at # "done"
    /\ bridge' = [bridge EXCEPT !.caller = "idle", !.tasks[Awaited].abandoned = TRUE]
    /\ UNCHANGED <<chat_vars, route, schema, translation, pools, retry, since_reset, invocation, tech_search>>

BridgeNext ==
    \/ BridgeChat
    \/ \E k \in 1..Len(bridge.tasks) : LoopRunsToAwait(k)
    \/ \E k \in 1..Len(bridge.tasks) : LoopRunsToEnd(k)
    \/ BridgeChatReturns
    \/ BridgeChatTimesOut

BridgeSpec == Init /\ [][BridgeNext]_vars

-----------------------------------------------------------------------------
(* The generative-model call wrappers and their retry loop *)

max_retries == 5

\* The four wrappers: they share the loop and differ in what follows it and
\* in what surrounds it.
Wrappers ==
    {"_call_claude", "analyze_with_claude", "_generate_with_claude",
     "_analyze_scope_with_claude"}

\* The HTTP statuses a response may carry.
Statuses == {200, 400, 401, 403, 404, 429, 500}

\* What client.post may raise instead of giving a response.
TransportErrors == {"TimeoutException", "ConnectError"}

\* wait_time = (attempt + 1) * 15
WaitTime(attempt) == (attempt + 1) * 15

\* Mutant: server errors are retried as well.
IsRateLimitedOrServerError(status) == status = 429 \/ status >= 500

\* if response.status_code == 429
IsRateLimited(status) == status = 429

\* response.raise_for_status() raises for an error status.
RaisesForStatus(status) == status >= 400

WrapperReturned(value) == [kind |-> "returned", value |-> value]
WrapperRaised(error) == [kind |-> "raised", error |-> error]

\* An exception inside the wrapper: it leaves the wrapper, except in
\* _analyze_scope_with_claude, whose try/except returns the fallback estimate.
OnException(wrapper, error) ==
    IF wrapper = "_analyze_scope_with_claude"
    THEN WrapperReturned("fallback")
    ELSE WrapperRaised(error)

\* What follows the loop when every attempt was rate limited: the raise of
\* RuntimeError; _analyze_scope_with_claude has no statement there, leaves
\* its try block without an exception and returns None.
AfterRetries(wrapper) ==
    IF wrapper = "_analyze_scope_with_claude"
    THEN WrapperReturned("None")
    ELSE WrapperRaised("RuntimeError: rate limit exceeded")

\* What the wrapper makes of a response that is not an error: the body, or
\* in _analyze_scope_with_claude the parsed body, or the fallback when the
\* text is not JSON.
OnSuccess(wrapper) ==
    IF wrapper = "_analyze_scope_with_claude"
    THEN {WrapperReturned("response"), WrapperReturned("fallback")}
    ELSE {WrapperReturned("response")}

\* A wrapper is called.  (Each behaviour looks at one call.)
WrapperCalled(wrapper) ==
    /\ retry.pc = "idle"
    /\ retry' = [pc |-> "posting", wrapper |-> wrapper, attempt |-> 0,
                 statuses |-> << >>, waits |-> << >>, outcome |-> [kind |-> "none"]]
    /\ UNCHANGED <<chat_vars, route, schema, translation, pools, since_reset, bridge, invocation, tech_search>>

\* One iteration of the loop: the response to the attempt's request arrives.
WrapperGetsResponse(status) ==
    /\ retry.pc = "posting"
    /\ LET seen == Append(retry.statuses, status)
       IN IF IsRateLimited(status)
          THEN LET slept == Append(retry.waits, WaitTime(retry.attempt))
               IN IF retry.attempt + 1 < max_retries
                  THEN retry' = [retry EXCEPT !.statuses = seen, !.waits = slept,
                                              !.attempt = @ + 1]
                  ELSE retry' = [retry EXCEPT !.statuses = seen, !.waits = slept,
                                              !.pc = "done",
                                              !.outcome = AfterRetries(retry.wrapper)]
          ELSE IF RaisesForStatus(status)
          THEN retry' = [retry EXCEPT !.statuses = seen, !.pc = "done",
                                      !.outcome = OnException(retry.wrapper,
                                                              "HTTPStatusError")]
          ELSE \E out \in OnSuccess(retry.wrapper) :
                  retry' = [retry EXCEPT !.statuses = seen, !.pc = "done", !.outcome = out]
    /\ UNCHANGED <<chat_vars, route, schema, translation, pools, since_reset, bridge, invocation, tech_search>>

\* The attempt's request fails in transport: client.post raises.
WrapperPostFails(error) ==
    /\ retry.pc = "posting"
    /\ retry' = [retry EXCEPT !.statuses = Append(@, 0), !.pc = "done",
                               !.outcome = OnException(retry.wrapper, error)]
    /\ UNCHANGED <<chat_vars, route, schema, translation, pools, since_reset, bridge, invocation, tech_search>>

RetryNext ==
    \/ \E wrapper \in Wrappers : WrapperCalled(wrapper)
    \/ \E status \in Statuses : WrapperGetsResponse(status)
    \/ \E error \in TransportErrors : WrapperPostFails(error)

RetrySpec == Init /\ [][RetryNext]_vars

-----------------------------------------------------------------------------
(* Tool routing on its own: _build_claude_tools and _execute_tool_call *)

\* The tool-call names a model response may carry.
Names == SeqsOf({"a", "_"}, 0, MaxNameLen)

\* The names a server may give its tools.
ToolNames == SeqsOf({"a", "_"}, 1, MaxToolLen)

\* get_all_tools of a pool whose connected agents a1 and a2 list the tools
\* t1 and t2: a dict keyed by agent id.
ToolsByAgent(a1, t1, a2, t2) ==
    IF a1 = a2
    THEN <<[agent_id |-> a1, tools |-> <<t1, t2>>]>>
    ELSE <<[agent_id |-> a1, tools |-> <<t1>>], [agent_id |-> a2, tools |-> <<t2>>]>>

\* _execute_tool_call is given a name a model response carries.  (Each
\* behaviour looks at one call: the call depends on nothing before it.)
ExecuteNamed(name, arguments) ==
    /\ route.kind = "none"
    /\ route' = [kind |-> "named", name |-> name, arguments |-> arguments,
                 out |-> ExecuteToolCall(name, arguments)]
    /\ UNCHANGED <<chat_vars, schema, translation, pools, retry, since_reset, bridge, invocation, tech_search>>

\* _build_claude_tools advertises the tools of registered agents, and
\* _execute_tool_call is given each advertised name.
ExecuteAdvertised(tools_by_agent, arguments) ==
    /\ route.kind = "none"
    /\ LET advertised == BuildClaudeTools(tools_by_agent)
       IN route' = [kind |-> "advertised", tools_by_agent |-> tools_by_agent,
                    advertised |-> advertised, arguments |-> arguments,
                    outs |-> [k \in 1..Len(advertised) |->
                                ExecuteToolCall(advertised[k], arguments)]]
    /\ UNCHANGED <<chat_vars, schema, translation, pools, retry, since_reset, bridge, invocation, tech_search>>

RouteNext ==
    \/ \E name \in Names, arguments \in Arguments : ExecuteNamed(name, arguments)
    \/ \E a1 \in Range(AGENT_REGISTRY), a2 \in Range(AGENT_REGISTRY),
          t1 \in ToolNames, t2 \in ToolNames, arguments \in Arguments :
          /\ a1 # a2 \/ t1 # t2
          /\ ExecuteAdvertised(ToolsByAgent(a1, t1, a2, t2), arguments)

RouteSpec == Init /\ [][RouteNext]_vars

-----------------------------------------------------------------------------
(* Notions the claims are stated with *)

Last(s) == s[Len(s)]

ToolUseBlocks(blocks) == SelectSeq(blocks, LAMBDA b : b.type = "tool_use")

\* The _execute_tool_call invocations chat made for the model in iteration i.
BatchCalls(i) == SelectSeq(calls, LAMBDA c : c.by = "model" /\ c.iteration = i)

\* The auto-export calls of this chat call.
AutoCalls == SelectSeq(calls, LAMBDA c : c.by = "auto")

\* The text blocks of a response, concatenated in order.
RECURSIVE ConcatTexts(_)
ConcatTexts(blocks) ==
    IF blocks = << >> THEN << >>
    ELSE IF Head(blocks).type = "text"
         THEN Head(blocks).text \o ConcatTexts(Tail(blocks))
         ELSE ConcatTexts(Tail(blocks))

IsPrefix(p, t) == Len(p) <= Len(t) /\ SubSeq(t, 1, Len(p)) = p

\* c and d are the same letter up to case.
SameLetter(c, d) ==
    c = d \/ \E k \in 1..26 : {c, d} = {UpperCase[k], LowerCase[k]}

\* message contains a keyword as a case-insensitive substring.
HasKeyword(message) ==
    \E kw \in DocxKeywords : \E i \in 0..(Len(message) - Len(kw)) :
        \A k \in 1..Len(kw) : SameLetter(message[i + k], kw[k])

\* The chat call is over: it returned or raised.
CallEnded == pc = "idle" /\ ret.kind # "none"

PendingExists == Truthy(pending_md) /\ Truthy(pending_client)

\* A pending proposal existed when the loop of the call ended: the one the
\* auto-export call of that call was given, or the one still held.
PendingAtEnd ==
    IF AutoCalls # << >>
    THEN /\ Len(AutoCalls[1].input.params.proposal_markdown) > 0
         /\ Len(AutoCalls[1].input.params.client_name) > 0
    ELSE PendingExists

\* The call ended on a response whose stop condition is not tool_use.
EndedOnFinal == CallEnded /\ ret.kind = "text" /\ stop_reason \notin {"none", "tool_use"}

UserTexts == SelectSeq(history, LAMBDA t : t.role = "user" /\ t.kind = "text")

-----------------------------------------------------------------------------
(* C1: a chat call makes at most 10 model calls, and a call whose 10         *)
(* responses all had the stop condition tool_use returns the fixed warning   *)
(* string instead of raising.                                                *)

C1_IterationBound ==
    /\ model_calls <= 10
    /\ (CallEnded /\ model_calls = 10 /\ stop_reason = "tool_use")
          => ret = Returned(MaxIterationsWarning)
    /\ (CallEnded /\ ret = Returned(MaxIterationsWarning)) => model_calls = 10

C1_Witness ==
    /\ CallEnded
    /\ ret = Returned(MaxIterationsWarning)
    /\ model_calls = 10
    /\ scripted = MaxScripted

(* C2: after a tool_use response, every tool_use block has been executed in  *)
(* the order received and one user turn holds one tool_result per tool_use   *)
(* block, same order and ids, before the next model call is issued.          *)

C2_BatchComplete ==
    /\ pc \in {"model", "tool"} => model_calls = iteration + 1
    /\ pc = "tool" =>
          /\ Last(history).role = "assistant"
          /\ Last(history).content = content_blocks
    /\ ((pc = "model" /\ iteration > 0) \/ (CallEnded /\ ret = Returned(MaxIterationsWarning)
                                              /\ history # << >>)) =>
          LET n == Len(history)
              asked == ToolUseBlocks(history[n - 1].content)
              batch == BatchCalls(IF pc = "model" THEN iteration - 1 ELSE iteration)
              given == history[n].content
          IN /\ history[n - 1].role = "assistant"
             /\ history[n].role = "user"
             /\ history[n].kind = "tool_results"
             /\ Len(given) = Len(asked)
             /\ \A i \in 1..Len(asked) :
                   /\ given[i].type = "tool_result"
                   /\ given[i].tool_use_id = asked[i].id
             /\ Len(batch) = Len(asked)
             /\ \A i \in 1..Len(asked) :
                   /\ batch[i].id = asked[i].id
                   /\ batch[i].name = asked[i].name
                   /\ batch[i].input = asked[i].input

C2_Witness ==
    /\ pc = "model"
    /\ iteration > 0
    /\ Len(Last(history).content) = 2
    /\ Last(history).content[1].tool_use_id = "t2"
    /\ Last(history).content[2].tool_use_id = "t1"

(* C3: on a response whose stop condition is not tool_use, chat makes no     *)
(* further model call, executes none of that response's tool_use blocks and  *)
(* returns its text blocks concatenated in order, followed only by the       *)
(* auto-export note when auto-export runs.                                   *)

C3_FinalResponse ==
    (stop_reason \notin {"none", "tool_use"}) =>
        /\ pc \in {"idle", "export"}
        /\ model_calls = iteration + 1
        /\ BatchCalls(iteration) = << >>
        /\ (pc = "idle" /\ history # << >>) =>
              /\ Last(history).role = "assistant"
              /\ ret.kind = "text"
              /\ IF AutoCalls = << >>
                 THEN ret.text = ConcatTexts(Last(history).content)
                 ELSE \E note \in {SuccessNote, FailureNote} :
                        IsPrefix(ConcatTexts(Last(history).content) \o note, ret.text)

C3_Witness ==
    /\ pc = "idle"
    /\ stop_reason = "max_tokens"
    /\ history # << >>
    /\ ToolUseBlocks(Last(history).content) # << >>
    /\ ret = Returned(<<"a", "c">>)

(* C4 (as stated): in a chat call the orchestrator invokes the export tool   *)
(* exactly once if and only if a pending proposal exists when the call ends  *)
(* and the user message contains a keyword case-insensitively; otherwise     *)
(* zero times.                                                               *)

C4_ExportIffPendingAndKeyword ==
    (CallEnded /\ ret.kind = "text") =>
        Len(AutoCalls) = (IF PendingAtEnd /\ HasKeyword(user_message) THEN 1 ELSE 0)

(* C4 (amended): the same equivalence for the calls that end on a response   *)
(* whose stop condition is not tool_use; a call that ends at the iteration   *)
(* cap or by a failed model call invokes the export tool zero times.         *)

C4_ExportOnFinalResponse ==
    /\ Len(AutoCalls) <= 1
    /\ \A i \in 1..Len(AutoCalls) :
          /\ AutoCalls[i].name = ExportToolName
          /\ AutoCalls[i].pool
    /\ pc = "export" =>
          /\ stop_reason \notin {"none", "tool_use"}
          /\ Len(AutoCalls) = 1
          /\ PendingExists
          /\ AutoCalls[1].input.params.proposal_markdown = pending_md.val
          /\ AutoCalls[1].input.params.client_name = pending_client.val
    /\ CallEnded =>
          IF EndedOnFinal
          THEN Len(AutoCalls) = (IF PendingAtEnd /\ HasKeyword(user_message) THEN 1 ELSE 0)
          ELSE AutoCalls = << >>

C4_Witness ==
    /\ EndedOnFinal
    /\ Len(AutoCalls) = 1
    /\ user_message = <<"a", " ", "D", "o", "c", "X">>
    /\ export_log # << >>

(* C5: auto-export clears the pending proposal on success only; when the     *)
(* export attempt fails the pending pair is kept and a failure note, not a   *)
(* success note, is appended to the final text.                              *)

C5_ClearedOnSuccessOnly ==
    (EndedOnFinal /\ AutoCalls # << >> /\ export_log # << >>) =>
        IF Last(export_log) = ExportSuccess
        THEN /\ ~PendingExists
             /\ Contains(SuccessNote, ret.text)
        ELSE /\ PendingExists
             /\ Contains(FailureNote, ret.text)
             /\ ~Contains(SuccessNote, ret.text)

(* C6: a successful auto-export clears the pending proposal, an auto-export  *)
(* starts only while a proposal is pending, and a proposal becomes pending   *)
(* only by a generate_proposal result: a later chat call with the identical  *)
(* message exports nothing unless a proposal was generated in between.       *)

C6_NoReexport ==
    [][ /\ (pc = "export" /\ pc' = "idle" /\ Last(export_log') = ExportSuccess)
              => (pending_md' = None /\ pending_client' = None)
        /\ (pc # "export" /\ pc' = "export") => PendingExists
        /\ (~PendingExists /\ PendingExists') =>
              /\ pc = "tool"
              /\ content_blocks[block_idx].name = GenerateName
      ]_vars

C6_Witness ==
    /\ chats = 2
    /\ EndedOnFinal
    /\ export_log = <<ExportSuccess>>
    /\ AutoCalls = << >>
    /\ HasKeyword(user_message)
    /\ Len(UserTexts) = 2
    /\ UserTexts[1].content = UserTexts[2].content
    /\ ~PendingExists

(* C7: a tool call sets the pending proposal exactly when it is named        *)
(* proposal_writer__generate_proposal and its result contains the marker;    *)
(* the pending pair is then that result and that call's client name; every   *)
(* other tool result, and every model response, leaves the pair unchanged.   *)

C7_PendingTracking ==
    [][ /\ pc = "tool" =>
              LET block == content_blocks[block_idx]
                  result == IF pc' = "tool" THEN Last(tool_results').content
                            ELSE Last(Last(history').content).content
              IN IF /\ block.name = <<"proposal", "_", "writer", "_", "_",
                                       "generate", "_", "proposal">>
                    /\ Contains(<<DOC, " ", "Technical Proposal">>, result)
                 THEN /\ pending_md' = Some(result)
                      /\ pending_client' = Some(block.input.params.client_name)
                 ELSE UNCHANGED <<pending_md, pending_client>>
        /\ pc = "model" => UNCHANGED <<pending_md, pending_client>>
      ]_vars

C7_Witness ==
    /\ pc = "model"
    /\ pending_md = Some(ProposalMarkdown(<<"zeta">>))
    /\ pending_client = Some(<<"zeta">>)
    /\ \E i \in 1..Len(history) :
          /\ history[i].kind = "tool_results"
          /\ \E j \in 1..Len(history[i].content) :
                history[i].content[j].content = ProposalMarkdown(<<"acme">>)

-----------------------------------------------------------------------------
(* Claims on routing *)

\* "__" starts at position i of name.
SepAt(name, i) == i >= 1 /\ i < Len(name) /\ name[i] = "_" /\ name[i + 1] = "_"

HasSep(name) == \E i \in 1..Len(name) : SepAt(name, i)

\* The number of occurrences of "__" in name, counted from the left without
\* overlap.
RECURSIVE CountSep(_)
CountSep(name) ==
    IF Len(name) < 2 THEN 0
    ELSE IF SepAt(name, 1) THEN 1 + CountSep(SubSeq(name, 3, Len(name)))
    ELSE CountSep(Tail(name))

\* The (agent id, tool name) pairs of a get_all_tools value, in order.
RECURSIVE PairsOf(_)
PairsOf(tools_by_agent) ==
    IF tools_by_agent = << >> THEN << >>
    ELSE LET a == Head(tools_by_agent)
         IN [i \in 1..Len(a.tools) |-> <<a.agent_id, a.tools[i]>>]
              \o PairsOf(Tail(tools_by_agent))

(* C8 (as stated): for every tool-call name that does not contain exactly    *)
(* one "__" occurrence, _execute_tool_call returns a structured error and    *)
(* makes no call to the Tool Pool.                                           *)

C8_ErrorUnlessOneSeparator ==
    (route.kind = "named" /\ CountSep(route.name) # 1) => route.out.kind = "error"

(* C8 (amended): a name without any "__" gets the structured error and no    *)
(* call to the Tool Pool; a name with one or more "__" is split at the first *)
(* one and dispatched to the Tool Pool with its arguments.                   *)

C8_ErrorIffNoSeparator ==
    route.kind = "named" =>
        IF HasSep(route.name)
        THEN /\ route.out.kind = "pool"
             /\ route.out.agent_id \o <<"_", "_">> \o route.out.tool = route.name
             /\ \A i \in 1..Len(route.out.agent_id) : ~SepAt(route.name, i)
             /\ route.out.arguments = route.arguments
        ELSE /\ route.out.kind = "error"
             /\ route.out.text =
                  <<"{", "error", "Invalid tool name format">> \o route.name \o <<"}">>

C8_Witness ==
    /\ route.kind = "named"
    /\ route.name = <<"a", "_", "_", "a", "_", "_", "a">>
    /\ route.out.kind = "pool"
    /\ route.out.agent_id = <<"a">>
    /\ route.out.tool = <<"a", "_", "_", "a">>

(* C9: every name advertised for a tool of a registered agent dispatches to  *)
(* exactly that agent and tool with the arguments unchanged, also when the   *)
(* tool name contains "__", and no two advertised tools share a name.        *)

C9_RoutingRoundTrip ==
    route.kind = "advertised" =>
        LET pairs == PairsOf(route.tools_by_agent)
        IN /\ Len(route.advertised) = Len(pairs)
           /\ \A k \in 1..Len(pairs) :
                 /\ route.advertised[k] = pairs[k][1] \o <<"_", "_">> \o pairs[k][2]
                 /\ route.outs[k].kind = "pool"
                 /\ route.outs[k].agent_id = pairs[k][1]
                 /\ route.outs[k].tool = pairs[k][2]
                 /\ route.outs[k].arguments = route.arguments
           /\ \A i \in 1..Len(pairs) : \A j \in 1..Len(pairs) :
                 i # j => route.advertised[i] # route.advertised[j]

C9_Witness ==
    /\ route.kind = "advertised"
    /\ Len(route.advertised) = 2
    /\ route.advertised[1] = <<"pricing", "_", "_", "_", "_">>
    /\ route.advertised[2] = <<"pricing", "_", "_", "_", "a">>
    /\ route.outs[1].tool = <<"_", "_">>
    /\ route.outs[2].tool = <<"_", "a">>

-----------------------------------------------------------------------------
(* Claims on schemas *)

\* Some dict inside obj has a "$ref" entry.
RECURSIVE HasRef(_)
HasRef(obj) ==
    IF obj.t = "dict"
    THEN "$ref" \in Keys(obj) \/ \E i \in 1..Len(obj.v) : HasRef(obj.v[i][2])
    ELSE IF obj.t = "list" THEN \E i \in 1..Len(obj.v) : HasRef(obj.v[i])
    ELSE FALSE

\* Some dict inside obj has an "anyOf" with a null alternative.
RECURSIVE HasNullableUnion(_)
HasNullableUnion(obj) ==
    IF obj.t = "dict"
    THEN \/ /\ "anyOf" \in Keys(obj)
            /\ \E i \in 1..Len(Lookup(obj, "anyOf").v) :
                  Lookup(obj, "anyOf").v[i] = Dict(<< <<"type", Atom(<<"null">>)>> >>)
         \/ \E i \in 1..Len(obj.v) : HasNullableUnion(obj.v[i][2])
    ELSE IF obj.t = "list" THEN \E i \in 1..Len(obj.v) : HasNullableUnion(obj.v[i])
    ELSE FALSE

(* C10: for every tool input schema returned by either Tool Pool variant,    *)
(* the schema shown to the model contains no "$ref" entry and no anyOf with  *)
(* a null alternative.                                                       *)

C10_NoRefNoNullableUnion ==
    schema.pool # "none" =>
        /\ ~HasRef(schema.input_schema)
        /\ ~HasNullableUnion(schema.input_schema)

\* Some dict inside obj has an "anyOf" entry.
RECURSIVE HasUnion(_)
HasUnion(obj) ==
    IF obj.t = "dict"
    THEN "anyOf" \in Keys(obj) \/ \E i \in 1..Len(obj.v) : HasUnion(obj.v[i][2])
    ELSE IF obj.t = "list" THEN \E i \in 1..Len(obj.v) : HasUnion(obj.v[i])
    ELSE FALSE

(* C11: _resolve_schema_refs terminates with a result for every input        *)
(* schema, self-referencing references included; applying it to its own      *)
(* result changes nothing; a schema with no references and no unions is      *)
(* returned unchanged.                                                       *)

C11_TotalAndIdempotent ==
    translation.kind = "done" =>
        /\ translation.once.kind = "value"
        /\ translation.twice = translation.once
        /\ (~HasRef(translation.raw) /\ ~HasUnion(translation.raw))
              => translation.once.val = translation.raw

-----------------------------------------------------------------------------
(* Claims on the Tool Pool variants *)

\* text is a JSON object {"error": message}.
IsErrorObject(text) == Len(text) >= 2 /\ text[1] = "{" /\ text[2] = "error"

\* text stands for an exception that reached the caller.
IsRaise(text) == Len(text) >= 1 /\ text[1] = "raise"

Called == pools.last.op = "call_agent_tool"

\* The pair names no known tool: an unknown agent, or an unknown tool on a
\* known agent.
NamesNoTool(agent_id, tool) ==
    \/ agent_id \notin {AGENT_REGISTRY[k] : k \in 1..Len(AGENT_REGISTRY)}
    \/ \A k \in 1..Len(ServerTools(agent_id)) : ServerTools(agent_id)[k] # tool

NoDuplicates(seq) == \A i \in 1..Len(seq) : \A j \in 1..Len(seq) : i # j => seq[i] # seq[j]

Elements(seq) == {seq[k] : k \in 1..Len(seq)}

(* C12: call_agent_tool of both Tool Pool variants never raises: for every   *)
(* agent id, tool name and argument object it returns a text that is the     *)
(* answer of the tool (of the agent's server) or a JSON error object.        *)

C13_UnknownPairSameShape ==
    (Called /\ NamesNoTool(pools.last.agent_id, pools.last.tool)) =>
        /\ IsErrorObject(pools.last.mcp.result)
        /\ IsErrorObject(pools.last.inprocess.result)
        /\ ~pools.last.mcp.ran
        /\ ~pools.last.inprocess.ran

(* C14: driven by the same operations (every subprocess coming up), both     *)
(* pools list the same connected agents, each once, and the same tools, and  *)
(* a call runs its tool in one exactly when it does in the other; a call to  *)
(* an agent that is not connected runs no tool.                              *)

C14_Substitutable ==
    pools.all_up =>
        /\ pools.last.op = "listing" =>
              /\ Elements(pools.last.mcp_agents) = Elements(pools.last.inprocess_agents)
              /\ NoDuplicates(pools.last.mcp_agents)
              /\ NoDuplicates(pools.last.inprocess_agents)
              /\ Elements(pools.last.mcp_tools) = Elements(pools.last.inprocess_tools)
        /\ Called =>
              /\ (pools.last.mcp.result # ToolCallFailed
                    /\ pools.last.inprocess.result # ToolCallFailed)
                    => pools.last.mcp.ran = pools.last.inprocess.ran
              /\ pools.last.agent_id \notin Elements(pools.mcp) =>
                    (~pools.last.mcp.ran /\ ~pools.last.inprocess.ran)

-----------------------------------------------------------------------------
(* Claims on the retry loop *)

WrapperDone == retry.pc = "done"

\* Every attempt of the finished call received a 429 response.
AllRateLimited == \A k \in 1..Len(retry.statuses) : retry.statuses[k] = 429

\* The status of the last response of the finished call (0: none came).
LastStatus == retry.statuses[Len(retry.statuses)]

\* The wrappers that let a failure leave them.
Propagating == {"_call_claude", "analyze_with_claude", "_generate_with_claude"}

(* C15: when every attempt receives a 429 response, each of the four         *)
(* wrappers makes exactly 5 attempts, waits attempt-number x 15 seconds      *)
(* after each, and then fails with the rate-limit error rather than a        *)
(* generic error or a normal result.                                         *)

C15_RateLimitExhaustion ==
    (WrapperDone /\ AllRateLimited) =>
        /\ Len(retry.statuses) = 5
        /\ retry.waits = <<15, 30, 45, 60, 75>>
        /\ retry.outcome = [kind |-> "raised", error |-> "RuntimeError: rate limit exceeded"]

(* C16 (as stated): a response with an error status other than 429 ends the  *)
(* call on that attempt: the failure propagates once, with no wait and no    *)
(* further attempt; a retry happens only after a 429 response, and a         *)
(* non-error response is returned on the attempt that received it.           *)

-----------------------------------------------------------------------------
(* Claims on failures of the model backend and on reset_conversation *)

(* C17: chat returns a string for every outcome of the model backend and of  *)
(* the Tool Pool, and never raises to its caller.                            *)

C17_ChatReturnsString == CallEnded => ret.kind = "text"

\* The texts of the tool results the history holds.
ResultsInHistory ==
    UNION { {history[i].content[j].content : j \in 1..Len(history[i].content)} :
              i \in {k \in 1..Len(history) : history[k].kind = "tool_results"} }

\* The ids of the tool calls the running or last chat call made.
CallIds == {calls[i].id : i \in 1..Len(calls)}

(* C18: after reset_conversation returns, the history is empty and no        *)
(* proposal is pending, whatever chat calls came before; in the next chat    *)
(* call the history sent to the model holds only that call's turns (its own  *)
(* user message first, then its own responses and tool results), and an      *)
(* auto-export of that call exports a proposal generated in that call.       *)

C18_ResetClears ==
    /\ (since_reset.reset /\ since_reset.chats = 0) =>
          /\ history = << >>
          /\ pending_md = None
          /\ pending_client = None
    /\ (since_reset.reset /\ since_reset.chats = 1) =>
          /\ history[1] = [role |-> "user", kind |-> "text", content |-> user_message]
          /\ Len(UserTexts) = 1
          /\ Cardinality({i \in 1..Len(history) : history[i].role = "assistant"})
                <= model_calls
          /\ \A i \in 1..Len(history) :
                history[i].kind = "tool_results" =>
                   \A j \in 1..Len(history[i].content) :
                      history[i].content[j].tool_use_id \in CallIds
          /\ PendingExists => pending_md.val \in ResultsInHistory
          /\ \A i \in 1..Len(AutoCalls) :
                AutoCalls[i].input.params.proposal_markdown \in ResultsInHistory

C18_Witness ==
    /\ since_reset.reset
    /\ since_reset.chats = 1
    /\ chats = 2
    /\ EndedOnFinal
    /\ Len(AutoCalls) = 1
    /\ export_log = <<ExportSuccess>>

\* A history the model accepts: it begins with a user text turn, and every
\* tool_results turn directly follows the assistant turn holding the
\* tool_use blocks its results answer.
WellFormedHistory(h) ==
    /\ h # << >>
    /\ h[1].role = "user" /\ h[1].kind = "text"
    /\ \A i \in 1..Len(h) :
          h[i].kind = "tool_results" =>
             /\ i > 1
             /\ h[i - 1].role = "assistant"
             /\ [j \in 1..Len(h[i].content) |-> h[i].content[j].tool_use_id]
                  = [j \in 1..Len(ToolUseBlocks(h[i - 1].content)) |->
                        ToolUseBlocks(h[i - 1].content)[j].id]

(* C20: reset_conversation may be called at any time, also while a chat call *)
(* is between two steps of its loop: in every interleaving, each history     *)
(* sent to the model begins with a user text turn and every tool_result      *)
(* turn immediately follows the assistant turn holding its tool_use blocks.  *)

C20_ResetSafeMidLoop ==
    [][ (pc' = "model" /\ model_calls' # model_calls) => WellFormedHistory(history') ]_vars

-----------------------------------------------------------------------------
(* Claims on the bridge *)

\* Chat coroutine k has started and not finished.
InProgress(k) == bridge.tasks[k].at = "awaiting"

(* C19: through OrchestratorBridge at most one chat turn is in progress on   *)
(* the Orchestrator at any time: no chat starts executing before every       *)
(* earlier one has finished, also when the earlier caller stopped waiting    *)
(* on its timeout.                                                           *)

C19_OneChatAtATime ==
    /\ Cardinality({k \in 1..Len(bridge.tasks) : InProgress(k)}) <= 1
    /\ \A k \in 1..Len(bridge.tasks) :
          bridge.tasks[k].at # "scheduled" =>
             \A j \in 1..(k - 1) : bridge.tasks[j].at = "done"

-----------------------------------------------------------------------------
(* Claims on the conversation state across calls *)

(* C23: between two reset_conversation calls the history only grows: every   *)
(* step of chat appends at the end and leaves the turns already there as     *)
(* they are; the only step that does anything else is reset_conversation,    *)
(* which empties the history.                                                *)

C23_HistoryGrows ==
    [][ \/ IsPrefix(history, history')
        \/ /\ pc = "idle" /\ pc' = "idle"
           /\ since_reset' = [reset |-> TRUE, chats |-> 0]
           /\ history' = << >>
      ]_vars

C23_Witness ==
    /\ chats = 2
    /\ ~since_reset.reset
    /\ Len(UserTexts) = 2
    /\ \E i \in 1..Len(history) : history[i].kind = "tool_results" /\ i < Len(history) - 2
    /\ pc = "idle"

\* The step is reset_conversation between chat calls.
IsResetStep ==
    /\ pc = "idle" /\ pc' = "idle"
    /\ since_reset' = [reset |-> TRUE, chats |-> 0]
    /\ history' = << >>

(* C24: the pending markdown and the pending client name are always both     *)
(* set or both absent, and once set they stay set across later chat calls    *)
(* until a successful auto-export or a reset_conversation.                   *)

C24_PendingPair ==
    [][ /\ pending_md'.isNone <=> pending_client'.isNone
        /\ (PendingExists /\ ~PendingExists') =>
              \/ IsResetStep
              \/ pc = "export" /\ Last(export_log') = ExportSuccess
      ]_vars

\* The history begins with a user turn and its roles alternate.
Alternates(h) ==
    /\ h # << >>
    /\ h[1].role = "user"
    /\ \A i \in 1..(Len(h) - 1) : h[i].role # h[i + 1].role

(* C30: in single-threaded use, for every sequence of chat and               *)
(* reset_conversation calls, also after chat calls that hit the iteration    *)
(* cap or whose model call failed, the history passed to each model call     *)
(* begins with a user turn and strictly alternates user and assistant.       *)

C30_RolesAlternate == pc = "model" => Alternates(history)

-----------------------------------------------------------------------------
(* Claims on the agents' tools *)

InvocationDone == invocation.pc = "done"

\* The input breaks a constraint its model documents: the text without the
\* surrounding whitespace is outside its length bounds, the number is outside
\* its range or is no field of the model, the format is no value of the
\* enumeration, or an unknown field is given.
ViolatesConstraint(name, input) ==
    LET c == InputConstraints(name)
    IN \/ input.text.body < c.min_length
       \/ c.max_length > 0 /\ input.text.body > c.max_length
       \/ ~input.number.isNone /\ ~c.has_number
       \/ ~input.number.isNone /\ (input.number.val < c.ge \/ input.number.val > c.le)
       \/ input.format \notin {"markdown", "json"}
       \/ input.extra

(* C21: every tool input that violates a documented constraint is rejected   *)
(* with an error before the tool function starts: no search request and no   *)
(* model request is issued.                                                  *)

C21_RejectedBeforeAnyRequest ==
    (invocation.pc # "idle" /\ ViolatesConstraint(invocation.name, invocation.input)) =>
        /\ InvocationDone
        /\ invocation.outcome.kind = "error"
        /\ invocation.outcome.error = "Tool call failed"
        /\ invocation.requests = << >>

C21_Witness ==
    /\ InvocationDone
    /\ invocation.name = "search_company_info"
    /\ invocation.input.text = Padded(1, 0)
    /\ invocation.errors = {"string_too_short"}
    /\ invocation.requests = << >>

(* C22: when the search backend returns zero results and no summary,         *)
(* search_company_info returns the error "No results found for '<name>'"     *)
(* and the generative model is not called in that invocation; the model is   *)
(* called only after a search that returned a result or a summary.           *)

C22_NoResultsNoModelCall ==
    (invocation.pc # "idle" /\ invocation.name = "search_company_info") =>
        /\ (InvocationDone /\ invocation.searches = 1 /\ invocation.found = 0
              /\ ~invocation.answer) =>
              /\ invocation.outcome.kind = "error"
              /\ invocation.outcome.error = "No results found for"
              /\ invocation.outcome.subject.body = invocation.input.text.body
              /\ invocation.requests = <<"search">>
        /\ (\E i \in 1..Len(invocation.requests) : invocation.requests[i] = "model") =>
              /\ invocation.requests = <<"search", "model">>
              /\ invocation.found >= 1 \/ invocation.answer

C22_Witness ==
    /\ InvocationDone
    /\ invocation.name = "search_company_info"
    /\ invocation.searches = 1
    /\ invocation.found = 0
    /\ ~invocation.answer
    /\ invocation.requests = <<"search">>

(* C29: every tool that parses the generative model's output as JSON         *)
(* returns, whenever that output is not valid JSON, a structured error       *)
(* carrying at most the first 500 characters of the raw text, never a        *)
(* normal-looking result and never the full text.                            *)

C29_ParseFailureTruncated ==
    (InvocationDone /\ invocation.text.kind = "not_json") =>
        /\ invocation.outcome.kind = "error"
        /\ invocation.outcome.error = "Failed to parse"
        /\ invocation.outcome.raw_response <= 500
        /\ invocation.outcome.raw_response <= invocation.text.len

-----------------------------------------------------------------------------
(* Claims on the knowledge base *)

\* Two names are the same up to case.
SameName(s, t) == Len(s) = Len(t) /\ \A i \in 1..Len(s) : SameLetter(s[i], t[i])

\* The stack holds the technology, compared without case.
StackHolds(stack, t) == \E i \in 1..Len(stack) : SameName(stack[i], t)

\* The positions of the request that do not repeat an earlier technology.
DistinctRequested(technologies) ==
    {i \in 1..Len(technologies) :
        \A j \in 1..(i - 1) : ~SameName(technologies[i], technologies[j])}

\* The projects search_tech_stack is to find.
Wanted ==
    {k \in 1..Len(tech_search.projects) :
        IF tech_search.match_all
        THEN \A i \in 1..Len(tech_search.technologies) :
                StackHolds(tech_search.projects[k], tech_search.technologies[i])
        ELSE \E i \in 1..Len(tech_search.technologies) :
                StackHolds(tech_search.projects[k], tech_search.technologies[i])}

\* The projects found are exactly the wanted ones, each once, in descending
\* order of matched_count.
FoundWanted ==
    LET results == tech_search.outcome.results
    IN /\ {results[i].project : i \in 1..Len(results)} = Wanted
       /\ Len(results) = Cardinality(Wanted)
       /\ \A i \in 1..(Len(results) - 1) :
             results[i].matched_count >= results[i + 1].matched_count

(* C28 (as stated): with match_all=true search_tech_stack returns exactly    *)
(* the projects whose tech stack contains every requested technology         *)
(* (compared case-insensitively), each with matched_count equal to the       *)
(* number of requested technologies; with match_all=false exactly the        *)
(* projects that contain at least one, ordered by matched_count descending.  *)

C28_MatchedCountIsRequested ==
    tech_search.kind = "searched" =>
        /\ FoundWanted
        /\ tech_search.match_all =>
              \A i \in 1..Len(tech_search.outcome.results) :
                 tech_search.outcome.results[i].matched_count
                    = Len(tech_search.technologies)

(* C28 (amended): the same, with matched_count equal to the number of        *)
(* different requested technologies, a technology requested twice (also in   *)
(* another case) counting once; with match_all=false matched_count is the    *)
(* number of different requested technologies the project has.               *)

C28_MatchedCountIsDistinct ==
    tech_search.kind = "searched" =>
        /\ FoundWanted
        /\ \A i \in 1..Len(tech_search.outcome.results) :
              LET r == tech_search.outcome.results[i]
              IN r.matched_count =
                    Cardinality({j \in DistinctRequested(tech_search.technologies) :
                                   StackHolds(tech_search.projects[r.project],
                                              tech_search.technologies[j])})
        /\ tech_search.match_all =>
              \A i \in 1..Len(tech_search.outcome.results) :
                 tech_search.outcome.results[i].matched_count
                    = Cardinality(DistinctRequested(tech_search.technologies))

C28_Witness ==
    /\ tech_search.kind = "searched"
    /\ tech_search.match_all
    /\ tech_search.technologies = <<<<"A">>, <<"B">>>>
    /\ tech_search.projects = <<<<<<"A">>>>, <<<<"a">>, <<"b">>>>>>
    /\ tech_search.outcome.results = <<[project |-> 2, matched_count |-> 2]>>

-----------------------------------------------------------------------------
(* Claims on the batch of tool calls and on the tool list *)

\* The positions of the tool_use blocks after position k.
LaterToolUses(blocks, k) == {j \in (k + 1)..Len(blocks) : blocks[j].type = "tool_use"}

\* The text says that the call failed: a malformed name, an agent that is
\* not connected, a tool the agent does not have, a rejected input, an
\* exception in the tool or in the call.
IsFailure(text) ==
    \/ text \in {ToolCallFailed, ValidationError, ApiError, <<"Unknown tool">>}
    \/ Contains(<<"Invalid tool name format">>, text)
    \/ Contains(<<"not found or not connected">>, text)

(* C25: when a tool call of a batch fails, its error string is recorded as   *)
(* that call's tool_result, the remaining tool calls of the batch are still  *)
(* executed, and the loop proceeds to the next model call (or, in the last   *)
(* iteration, to the warning).                                               *)

C25_FailedCallRecorded ==
    [][ pc = "tool" =>
          LET block == content_blocks[block_idx]
              recorded == IF pc' = "tool" THEN Last(tool_results')
                          ELSE Last(Last(history').content)
              later == LaterToolUses(content_blocks, block_idx)
          IN /\ recorded.tool_use_id = block.id
             /\ recorded.content \in ExecuteResults(connections, block.name, block.input)
             /\ IF later # {}
                THEN /\ pc' = "tool"
                     /\ block_idx' = CHOOSE j \in later : \A k \in later : j <= k
                     /\ Len(tool_results') = Len(tool_results) + 1
                     /\ Last(calls').id = content_blocks[block_idx'].id
                ELSE /\ Len(Last(history').content) = Len(ToolUseBlocks(content_blocks))
                     /\ \/ pc' = "model" /\ model_calls' = model_calls + 1
                        \/ /\ model_calls = max_iterations
                           /\ pc' = "idle"
                           /\ ret' = Returned(MaxIterationsWarning)
      ]_vars

C25_Witness ==
    /\ pc = "model"
    /\ iteration > 0
    /\ Len(Last(history).content) = 2
    /\ Last(history).content[1].tool_use_id = "t3"
    /\ Last(history).content[1].content = ValidationError
    /\ ~IsFailure(Last(history).content[2].content)
    /\ \E c \in Range(calls) : c.id = "t1"

\* The advertised names of the tools of the connected agents.
ConnectedToolNames ==
    UNION {{CompositeName(a, ServerTools(a)[i]) : i \in 1..Len(ServerTools(a))} :
              a \in Range(connections)}

(* C26: every chat call takes the tool list from the Tool Pool before its    *)
(* first model call: the tools offered to the model are exactly the tools of *)
(* the agents connected when the call began (none for an agent that was      *)
(* disconnected or never connected), and the list stays the same on every    *)
(* iteration of the call.                                                    *)

C26_ToolListRefreshed ==
    [][ /\ pc' # "idle" =>
              /\ Elements(claude_tools') = ConnectedToolNames'
              /\ NoDuplicates(claude_tools')
        /\ (pc # "idle" /\ pc' # "idle") => claude_tools' = claude_tools
      ]_vars

C26_Witness ==
    /\ chats = 2
    /\ life = "stopped"
    /\ pc = "model"
    /\ iteration > 0
    /\ claude_tools = << >>
    /\ \E i \in 1..Len(history) : history[i].kind = "tool_results"

\* The tool_use blocks of the current batch whose call has been issued: the
\* loop has reached them.
IssuedToolUses ==
    SelectSeq(SubSeq(content_blocks, 1, block_idx), LAMBDA b : b.type = "tool_use")

\* The tool_use blocks of the current batch.
BatchToolUses == SelectSeq(content_blocks, LAMBDA b : b.type = "tool_use")

\* The calls of the current batch that were issued and have not returned.
OutstandingToolCalls ==
    IF pc = "tool" THEN Len(IssuedToolUses) - Len(tool_results) ELSE 0

(* C27 as stated: while the tool calls of a batch are executed, all of them  *)
(* have been issued (they run concurrently and are only joined before the    *)
(* next model call), and no model call is outstanding meanwhile.             *)

C27_BatchRunsConcurrently ==
    pc = "tool" =>
        /\ Len(IssuedToolUses) = Len(BatchToolUses)
        /\ OutstandingToolCalls = Len(BatchToolUses) - Len(tool_results)

(* C27, amended: the tool calls of a batch are executed one at a time, in    *)
(* the order of the tool_use blocks: while the batch is executed exactly one *)
(* call is outstanding, every earlier tool_use block has its result, in      *)
(* order, the outstanding call is the one issued last, and a model call is   *)
(* outstanding only when no tool call is.                                    *)

C27_BatchRunsInOrder ==
    /\ OutstandingToolCalls <= 1
    /\ pc = "model" => OutstandingToolCalls = 0 /\ tool_results = << >>
    /\ pc = "tool" =>
          /\ OutstandingToolCalls = 1
          /\ content_blocks[block_idx].type = "tool_use"
          /\ \A i \in 1..Len(tool_results) :
                tool_results[i].tool_use_id = IssuedToolUses[i].id
          /\ calls[Len(calls)].id = content_blocks[block_idx].id
          /\ calls[Len(calls)].by = "model"

C27_Witness ==
    /\ pc = "tool"
    /\ Len(BatchToolUses) = 2
    /\ Len(tool_results) = 1
    /\ block_idx = 2
    /\ tool_results[1].tool_use_id = "t3"
    /\ calls[Len(calls)].id = "t1"

====
